---- MODULE Spec2Model ----
(***************************************************************************)
(* Memorigo: the repository set (storage/repos.go), the Writer            *)
(* (memori Writer.Execute) and the augmentation pipeline                  *)
(* (memori/augmentation.go) as state machines over one shared store.      *)
(*                                                                         *)
(* Strings of error text are modelled as sequences of words, so that the  *)
(* substring test of isRetriableError is computed, not assumed.           *)
(* Time is counted in whole minutes (the unit of the conversation TTL).   *)
(***************************************************************************)
EXTENDS Integers, Sequences, FiniteSets, TLC

VARIABLES
    dialect,          \* Manager.Dialect(): "sqlite", "postgres", "mongodb", or "" when unbound
    schema,           \* the migration table, the schema objects and the stored schema version
    registry,         \* adapterRegistry and driverRegistry of package storage
    manager,          \* Memori.Storage: the adapter and the driver bound (<<>> is nil)
    now,              \* time.Now(), in minutes
    db,               \* the tables / collections, each a sequence of rows in insertion order
    memori_counters,  \* per table: last id handed out (Mongo memori_counters, SQL rowid)
    rc,               \* clients: position of each caller inside a repository or Enqueue call
    ncalls,           \* number of repository calls started
    calls,            \* completed repository calls (history)
    queue,            \* AugmentationManager.queue: the buffered channel of jobs
    started,          \* AugmentationManager.startOnce has fired: the workers run
    spawned,          \* number of goroutines started with go m.worker()
    wk,               \* the workers: position of each inside worker() / processInput
    nenq,             \* number of Enqueue calls made
    upserted,         \* per (entity id, fingerprint): Fact.Upsert calls returned (history)
    conn,             \* the connection handed to WithStorageConn ("none": option not used)
    Config,           \* Memori.Config: EntityID, ProcessID, SessionID, SessionTTL
    Cache,            \* Memori.Config.Cache: the cached internal ids (<<>> is a nil pointer)
    wr,               \* callers of Writer.Execute: position, payload, attempt, errors so far
    nexec,            \* number of Execute calls started
    nfail,            \* number of failures injected into repository calls
    ncfg,             \* number of Attribution / NewSession / SetSession calls made
    ntokens,          \* number of session tokens drawn by uuid.New()
    limits,           \* how many Execute calls, backend failures and configuration calls a run has
    last,             \* what the most recent executeTransaction did (history)
    recall,           \* the most recent SearchFacts / SearchByEmbedding call and its answer
    stream            \* the streamed chat completion: its channels and its two goroutines

storeVars == <<dialect, schema, registry, manager, now, db, memori_counters>>
repoVars == <<rc, ncalls, calls>>
augVars == <<queue, started, spawned, wk, nenq, upserted>>
writerVars == <<conn, Config, Cache, wr, nexec, nfail, ncfg, ntokens, limits, last, recall>>
vars == <<dialect, schema, registry, manager, now, db, memori_counters, rc, ncalls, calls,
          queue, started, spawned, wk, nenq, upserted,
          conn, Config, Cache, wr, nexec, nfail, ncfg, ntokens, limits, last, recall,
          stream>>

----------------------------------------------------------------------------
(* Bounds of the model *)

NumClients == 2
MaxCalls == 2
MaxTime == 1

Clients == 1..NumClients

\* Callers of Writer.Execute on the one Memori instance
NumWriters == 2
Writers == 1..NumWriters
WriterIdle == [pc |-> "idle"]
NoAttempt == [caller |-> 0]
NoRecall == [n |-> 0]
NoStream == [pc |-> "idle"]
NoLimits == [execs |-> 0, faults |-> 0, cfgs |-> 0]

\* newConfig: no attribution yet, the first session token, SessionTTL in minutes
SessionTTL == 30
newConfig == [EntityID |-> "", ProcessID |-> "", SessionID |-> 1, SessionTTL |-> SessionTTL]
EmptyCache == [entity_id |-> <<>>, process_id |-> <<>>, session_id |-> <<>>,
               conversation_id |-> <<>>]

\* NewAugmentationManager: queue capacity and number of workers
queueCap == 1000
workers == 8
Workers == 1..workers
Receiving == [pc |-> "recv"]
SQLDialects == {"sqlite", "postgres"}
Dialects == SQLDialects \cup {"mongodb"}
ExternalIDs == {"u1", "u2"}
SessionIDs == {1}
TTLs == {1, 2}

Nil == <<>>
ErrNoRows == <<"no", "rows", "in", "result", "set">>
ErrDuplicateKey == <<"duplicate", "key">>
NoID == 0

\* Errors a backend may answer a repository call with: texts that hold one of the
\* phrases "restart transaction" / "serialization failure", and texts that do not.
TransientErrors ==
    { <<"ERROR:", "restart", "transaction:", "restart", "transaction", "(SQLSTATE", "40001)">>,
      <<"serialization", "failure">> }

OtherErrors ==
    { <<"database", "is", "locked">>,
      <<"transaction", "restart", "failure", "serialization">> }

BackendErrors == TransientErrors \cup OtherErrors

Collections == {"memori_entity", "memori_process", "memori_session",
                "memori_conversation", "memori_conversation_message",
                "memori_entity_fact"}

----------------------------------------------------------------------------
(* Schema: unique keys *)

\* Unique indexes the Mongo migration creates, as <<collection, key fields>>.
mongoMigrations ==
    { <<"memori_entity", <<"external_id">> >>,
      <<"memori_process", <<"external_id">> >>,
      <<"memori_session", <<"uuid">> >>,
      <<"memori_conversation", <<"session_id">> >>,
      <<"memori_entity_fact", <<"entity_id", "uniq">> >> }

\* Unique constraints of the relational schema (the record shapes of the
\* specification: external_id unique, session uuid unique, (entity, uniq) unique).
sqlMigrations ==
    { <<"memori_entity", <<"external_id">> >>,
      <<"memori_process", <<"external_id">> >>,
      <<"memori_session", <<"uuid">> >>,
      <<"memori_entity_fact", <<"entity_id", "uniq">> >> }

UniqueKeys(d, coll) ==
    {k[2] : k \in {u \in (IF d = "mongodb" THEN mongoMigrations ELSE sqlMigrations) : u[1] = coll}}

SameKey(r1, r2, key) == \A i \in DOMAIN key : r1[key[i]] = r2[key[i]]

\* An insert violates a unique key when a stored row agrees with the new row on it.
Conflicts(d, coll, table, row) ==
    \E key \in UniqueKeys(d, coll) : \E i \in DOMAIN table : SameKey(table[i], row, key)

----------------------------------------------------------------------------
(* Backend registry and Storage Manager *)

FirstIndex(S) == CHOOSE i \in S : \A j \in S : i <= j

ErrNoAdapter == <<"no", "adapter", "registered", "for", "connection", "type">>

\* Connection handles by type: *sql.DB (named by its driver), *mongo.Database, any other.
SQLHandles == SQLDialects \cup {"mysql"}

\* The matchers: isSQLDB, isMongoDB, and one a program registers for its own handles.
Accepts(match, c) ==
    CASE match = "isSQLDB" -> c \in SQLHandles
      [] match = "isMongoDB" -> c = "mongodb"
      [] OTHER -> c # "nil"

\* The adapter factories. newSQLAdapter: "sqlite" when the driver's type name holds it,
\* "postgres" otherwise.
Product(factory, c) ==
    CASE factory = "newSQLAdapter" ->
             [adapter |-> <<[type |-> "SQLAdapter",
                             dialect |-> IF c = "sqlite" THEN "sqlite" ELSE "postgres"]>>,
              err |-> Nil]
      [] factory = "newMongoAdapter" ->
             [adapter |-> <<[type |-> "MongoAdapter", dialect |-> "mongodb"]>>, err |-> Nil]
      [] OTHER ->
             [adapter |-> <<[type |-> "CustomAdapter", dialect |-> "custom"]>>, err |-> Nil]

\* init(): the two adapter pairs in this order and the three drivers.
initRegistry ==
    [adapters |-> <<[match |-> "isSQLDB", factory |-> "newSQLAdapter"],
                    [match |-> "isMongoDB", factory |-> "newMongoAdapter"]>>,
     drivers |-> [d \in Dialects |-> IF d = "mongodb" THEN "newMongoDriver"
                                     ELSE "newSQLDriver"]]

RegisterAdapter(reg, match, factory) ==
    [reg EXCEPT !.adapters = Append(@, [match |-> match, factory |-> factory])]

\* A lookup in which a pair registered later takes precedence.
RegistryAdapterLastWins(reg, c) ==
    LET hits == {i \in DOMAIN reg.adapters : Accepts(reg.adapters[i].match, c)}
    IN IF hits = {} THEN [adapter |-> <<>>, err |-> Append(ErrNoAdapter, c)]
       ELSE Product(reg.adapters[CHOOSE i \in hits : \A j \in hits : j <= i].factory, c)

\* RegistryAdapter: the product of the first pair, in registration order, whose
\* matcher accepts the connection.
RegistryAdapter(reg, c) ==
    LET hits == {i \in DOMAIN reg.adapters : Accepts(reg.adapters[i].match, c)}
    IN IF hits = {} THEN [adapter |-> <<>>, err |-> Append(ErrNoAdapter, c)]
       ELSE Product(reg.adapters[FirstIndex(hits)].factory, c)

\* The driver factories: each expects the adapter type of its backend.
DriverProduct(factory, name, a) ==
    IF factory = "newMongoDriver"
    THEN IF a.type = "MongoAdapter"
         THEN [driver |-> <<[type |-> "MongoDriver", dialect |-> "mongodb"]>>, err |-> Nil]
         ELSE [driver |-> <<>>, err |-> <<"mongo", "driver", "expects", "*MongoAdapter">>]
    ELSE IF a.type = "SQLAdapter"
         THEN [driver |-> <<[type |-> "SQLDriver", dialect |-> name]>>, err |-> Nil]
         ELSE [driver |-> <<>>, err |-> <<"sql", "driver", "expects", "*SQLAdapter">>]

\* RegistryDriver: the product of the factory registered for the adapter's dialect.
RegistryDriver(reg, a) ==
    IF a.dialect \notin DOMAIN reg.drivers
    THEN [driver |-> <<>>,
          err |-> <<"no", "driver", "registered", "for", "dialect:", a.dialect>>]
    ELSE DriverProduct(reg.drivers[a.dialect], a.dialect, a)

NoManager == [adapter |-> <<>>, driver |-> <<>>]

\* A Start that stores the adapter before it looks for the driver.
ManagerStartStoresAdapterFirst(reg, mgr, c) ==
    IF c = "nil" THEN [manager |-> mgr, err |-> Nil]
    ELSE LET a == RegistryAdapter(reg, c)
         IN IF a.err # Nil THEN [manager |-> mgr, err |-> a.err]
            ELSE LET d == RegistryDriver(reg, a.adapter[1])
                 IN [manager |-> [adapter |-> a.adapter, driver |-> d.driver], err |-> d.err]

\* Manager.Start(conn): the manager after the call and the error returned.
ManagerStart(reg, mgr, c) ==
    IF c = "nil" THEN [manager |-> mgr, err |-> Nil]
    ELSE LET a == RegistryAdapter(reg, c)
         IN IF a.err # Nil THEN [manager |-> mgr, err |-> a.err]
            ELSE LET d == RegistryDriver(reg, a.adapter[1])
                 IN IF d.err # Nil THEN [manager |-> mgr, err |-> d.err]
                    ELSE [manager |-> [adapter |-> a.adapter, driver |-> d.driver],
                          err |-> Nil]

\* Manager.Dialect(): "" when no adapter is bound.
ManagerDialect(mgr) == IF mgr.adapter = <<>> THEN "" ELSE mgr.adapter[1].dialect

\* The manager of a Memori built with WithStorageConn(c) (c = "": without the option).
Started(c) == ManagerStart(initRegistry, NoManager, c).manager

----------------------------------------------------------------------------
(* Schema versions and Migrate *)

\* mongoMigrations: per version, the index creations in the order of the table (the
\* indexes the repositories of this model rely on, after the one of the version record).
mongoVersions ==
    [v \in {1} |->
        << <<"memori_schema_version", <<"num">> >>,
           <<"memori_entity", <<"external_id">> >>,
           <<"memori_process", <<"external_id">> >>,
           <<"memori_session", <<"uuid">> >>,
           <<"memori_conversation", <<"session_id">> >>,
           <<"memori_entity_fact", <<"entity_id", "uniq">> >> >>]

\* sqliteMigrations / postgresMigrations: per version, the schema operations (the table
\* of the version record, then the tables with their unique constraints).
sqlVersions ==
    [v \in {1} |->
        << <<"memori_schema_version", <<"num">> >>,
           <<"memori_entity", <<"external_id">> >>,
           <<"memori_process", <<"external_id">> >>,
           <<"memori_session", <<"uuid">> >>,
           <<"memori_entity_fact", <<"entity_id", "uniq">> >> >>]

\* The migration table Migrate selects for the dialect.
migrations(d) == IF d = "mongodb" THEN mongoVersions ELSE sqlVersions

\* A migration table with an entry for version 2 added.
WithVersion2(table) ==
    [v \in DOMAIN table \cup {2} |->
        IF v \in DOMAIN table THEN table[v]
        ELSE << <<"memori_entity_fact", <<"date_last_time">> >> >>]

\* A backend no Migrate has run on.
Fresh(table) == [table |-> table, objects |-> {}, version |-> <<>>]

maxVersion == 1

\* getSchemaVersion: the num of the first version record, 0 when the read fails or
\* finds none.
getSchemaVersion(s) == IF s.version = <<>> THEN 0 ELSE s.version[1]

\* The statements the apply loop runs from version v on with currentVersion cur: the
\* operations of each version found in the table, then that version's update.
RECURSIVE Plan(_, _, _)
Plan(table, cur, v) ==
    IF v > maxVersion THEN <<>>
    ELSE IF v \notin DOMAIN table THEN Plan(table, cur, v + 1)
    ELSE [i \in 1..Len(table[v]) |-> [kind |-> "op", v |-> v, cur |-> cur, op |-> table[v][i]]]
         \o <<[kind |-> "version", v |-> v, cur |-> cur, op |-> <<>>]>>
         \o Plan(table, v, v + 1)

\* The version update of the relational dialects: INSERT when currentVersion is 0,
\* UPDATE of every record otherwise.
UpdateVersionSQL(version, cur, v) ==
    IF cur = 0 THEN Append(version, v) ELSE [i \in DOMAIN version |-> v]

\* ReplaceOne({num: cur}, {num: v}, upsert): the first matching record is replaced, a
\* record is inserted when none matches.
UpdateVersionMongo(version, cur, v) ==
    IF \E i \in DOMAIN version : version[i] = cur
    THEN LET i == CHOOSE j \in DOMAIN version :
                      version[j] = cur /\ \A k \in 1..(j - 1) : version[k] # cur
         IN [version EXCEPT ![i] = v]
    ELSE Append(version, v)

\* One statement of the plan, carried out.
Exec(d, s, st) ==
    IF st.kind = "op" THEN [s EXCEPT !.objects = @ \cup {st.op}]
    ELSE [s EXCEPT !.version = IF d = "mongodb" THEN UpdateVersionMongo(@, st.cur, st.v)
                                ELSE UpdateVersionSQL(@, st.cur, st.v)]

RECURSIVE ExecAll(_, _, _)
ExecAll(d, s, plan) ==
    IF plan = <<>> THEN s ELSE ExecAll(d, Exec(d, s, Head(plan)), Tail(plan))

Itoa(v) == <<"0", "1", "2">>[v + 1]

\* SQLDriver.Migrate from tx.Begin on: statement failAt of the plan fails with err (0:
\* none fails, one more than the plan's length: tx.Commit fails); the deferred
\* Rollback undoes what the transaction did.
migrateSQL(d, s, plan, failAt, err) ==
    IF failAt = 0 \/ failAt > Len(plan) + 1
    THEN [schema |-> ExecAll(d, s, plan), err |-> Nil, applied |-> plan]
    ELSE [schema |-> s,
          err |-> IF failAt <= Len(plan) /\ plan[failAt].kind = "op"
                  THEN <<"migration", Itoa(plan[failAt].v), "failed:">> \o err
                  ELSE err,
          applied |-> <<>>]

\* The statements of the plan without the index creation that met a duplicate-key error.
Without(plan, k) == SubSeq(plan, 1, k - 1) \o SubSeq(plan, k + 1, Len(plan))

\* migrateMongo: every call takes effect at once; a duplicate-key error of an index
\* creation is ignored, any other error ends the migration where it stands.
migrateMongo(d, s, plan, failAt, err) ==
    IF failAt = 0 \/ failAt > Len(plan)
    THEN [schema |-> ExecAll(d, s, plan), err |-> Nil, applied |-> plan]
    ELSE IF plan[failAt].kind = "op" /\ err = ErrDuplicateKey
    THEN [schema |-> ExecAll(d, s, Without(plan, failAt)), err |-> Nil,
          applied |-> Without(plan, failAt)]
    ELSE [schema |-> ExecAll(d, s, SubSeq(plan, 1, failAt - 1)), err |-> err,
          applied |-> SubSeq(plan, 1, failAt - 1)]

\* A relational Migrate that runs its statements outside a transaction.
MigrateWithoutTransaction(d, s, failAt, err) ==
    LET cur == getSchemaVersion(s)
    IN IF cur >= maxVersion THEN [schema |-> s, err |-> Nil, applied |-> <<>>]
       ELSE migrateMongo(d, s, Plan(s.table, cur, cur + 1), failAt, err)

\* Driver.Migrate on a bound backend.
Migrate(d, s, failAt, err) ==
    LET cur == getSchemaVersion(s)
        plan == Plan(s.table, cur, cur + 1)
    IN IF cur >= maxVersion THEN [schema |-> s, err |-> Nil, applied |-> <<>>]
       ELSE IF d = "mongodb" THEN migrateMongo(d, s, plan, failAt, err)
       ELSE migrateSQL(d, s, plan, failAt, err)

\* Manager.Build: nothing when no driver is bound.
ManagerBuild(d, s, failAt, err) ==
    IF d = "" THEN [schema |-> s, err |-> Nil, applied |-> <<>>]
    ELSE Migrate(d, s, failAt, err)

\* The schema after Storage.Build() on a backend that answers every call.
Built(d) == ManagerBuild(d, Fresh(migrations(d)), 0, Nil).schema

----------------------------------------------------------------------------
(* Statements of the repositories, as functions of the table they act on *)

\* A lookup that takes the first row whatever its external id.
GetByExternalIDAnyRow(table, externalID) ==
    IF table = <<>> THEN [id |-> NoID, err |-> ErrNoRows]
    ELSE [id |-> table[1].id, err |-> Nil]

\* SELECT id ... WHERE external_id = ? / FindOne({external_id}): first matching row.
GetByExternalID(table, externalID) ==
    LET hit == {i \in DOMAIN table : table[i].external_id = externalID}
    IN IF hit = {} THEN [id |-> NoID, err |-> ErrNoRows]
       ELSE [id |-> table[FirstIndex(hit)].id, err |-> Nil]

\* INSERT / InsertOne of one row under the collection's unique keys.
InsertRow(d, coll, table, row) ==
    IF Conflicts(d, coll, table, row)
    THEN [table |-> table, err |-> ErrDuplicateKey]
    ELSE [table |-> Append(table, row), err |-> Nil]

\* The most recent conversation of a session (ORDER BY date_created DESC LIMIT 1):
\* the set of rows the statement may return (any row of the latest date).
LatestConversations(table, sessionID) ==
    LET mine == {i \in DOMAIN table : table[i].session_id = sessionID}
    IN {i \in mine : \A j \in mine : table[j].date_created <= table[i].date_created}

\* The reuse test of Conversation.Create: age < timeoutMinutes.
StillValid(created, t, timeoutMinutes) == (t - created) < timeoutMinutes

----------------------------------------------------------------------------
(* Repository calls, one statement per step *)

Idle == [pc |-> "idle"]

RepoOps == {"Entity.Create", "Process.Create", "Session.Create", "Conversation.Create"}

CollOf(op) ==
    CASE op = "Entity.Create" -> "memori_entity"
      [] op = "Process.Create" -> "memori_process"
      [] op = "Session.Create" -> "memori_session"
      [] op = "Conversation.Create" -> "memori_conversation"

\* First statement of a call: sqlProcessRepo.Create and sqlSessionRepo.Create insert at
\* once, the others read first.
FirstStage(d, op) ==
    CASE op = "Conversation.Create" -> "select"
      [] op = "Process.Create" /\ d \in SQLDialects -> "insert"
      [] op = "Session.Create" /\ d \in SQLDialects -> "insert"
      [] op = "Session.Create" -> "getuuid"
      [] OTHER -> "get"

Complete(c, id, err) ==
    /\ calls' = calls \cup {[n |-> rc[c].n, op |-> rc[c].op, arg |-> rc[c].arg,
                             ttl |-> rc[c].ttl, obs |-> rc[c].obs, id |-> id, err |-> err]}
    /\ rc' = [rc EXCEPT ![c] = Idle]

RepoCall(c) ==
    /\ rc[c].pc = "idle"
    /\ ncalls < MaxCalls
    /\ \E op \in RepoOps :
         \E arg \in (IF op \in {"Conversation.Create", "Session.Create"} THEN SessionIDs
                    ELSE ExternalIDs) :
           \E ttl \in (IF op = "Conversation.Create" THEN TTLs ELSE {0}) :
             rc' = [rc EXCEPT ![c] = [pc |-> FirstStage(dialect, op), n |-> ncalls + 1,
                                      op |-> op, arg |-> arg, ttl |-> ttl, seq |-> NoID,
                                      obs |-> [id |-> NoID, age |-> 0]]]
    /\ ncalls' = ncalls + 1
    /\ UNCHANGED <<stream, dialect, schema, registry, manager, now, db, memori_counters, calls, augVars, writerVars>>

\* sqlEntityRepo.Create / mongoEntityRepo.Create / mongoProcessRepo.Create: try existing first.
RepoGet(c) ==
    /\ rc[c].pc = "get"
    /\ LET r == GetByExternalID(db[CollOf(rc[c].op)], rc[c].arg)
       IN /\ UNCHANGED db
          /\ IF r.err = Nil
             THEN Complete(c, r.id, Nil)
             ELSE /\ rc' = [rc EXCEPT ![c].pc = IF dialect = "mongodb" THEN "seq" ELSE "insert"]
                  /\ UNCHANGED calls
    /\ UNCHANGED <<stream, dialect, schema, registry, manager, now, memori_counters, ncalls, augVars, writerVars>>

\* nextSeq: FindOneAndUpdate($inc seq) on memori_counters, returning the new value.
RepoNextSeq(c) ==
    /\ rc[c].pc = "seq"
    /\ LET coll == CollOf(rc[c].op)
       IN /\ memori_counters' = [memori_counters EXCEPT ![coll] = @ + 1]
          /\ rc' = [rc EXCEPT ![c].seq = memori_counters[coll] + 1, ![c].pc = "insert"]
    /\ UNCHANGED <<stream, dialect, schema, registry, manager, now, db, ncalls, calls, augVars, writerVars>>

\* The INSERT ... RETURNING id of the SQL repositories, the InsertOne of the Mongo ones.
RepoInsert(c) ==
    /\ rc[c].pc = "insert"
    /\ rc[c].op \in {"Entity.Create", "Process.Create"}
    /\ LET coll == CollOf(rc[c].op)
           id == IF dialect = "mongodb" THEN rc[c].seq ELSE memori_counters[coll] + 1
           r == InsertRow(dialect, coll, db[coll], [id |-> id, external_id |-> rc[c].arg])
       IN /\ db' = [db EXCEPT ![coll] = r.table]
          /\ IF r.err = Nil
             THEN /\ memori_counters' =
                        IF dialect = "mongodb" THEN memori_counters
                        ELSE [memori_counters EXCEPT ![coll] = id]
                  /\ Complete(c, id, Nil)
             ELSE /\ rc' = [rc EXCEPT ![c].pc = "fallback"]
                  /\ UNCHANGED <<stream, memori_counters, calls>>
    /\ UNCHANGED <<stream, dialect, schema, registry, manager, now, ncalls, augVars, writerVars>>

\* A Create that gives the failed insert's error back instead of reading the row.
RepoFallbackReturnsError(c) ==
    /\ rc[c].pc = "fallback"
    /\ UNCHANGED db
    /\ Complete(c, NoID, ErrDuplicateKey)
    /\ UNCHANGED <<stream, dialect, schema, registry, manager, now, memori_counters, ncalls, augVars, writerVars>>

\* Fallback to the existing row after a failed insert.
RepoFallback(c) ==
    /\ rc[c].pc = "fallback"
    /\ LET r == GetByExternalID(db[CollOf(rc[c].op)], rc[c].arg)
       IN /\ UNCHANGED db
          /\ Complete(c, r.id, r.err)
    /\ UNCHANGED <<stream, dialect, schema, registry, manager, now, memori_counters, ncalls, augVars, writerVars>>

\* SELECT id FROM memori_session WHERE uuid = ? / FindOne({uuid})
GetByUUID(table, sessionUUID) ==
    LET hit == {i \in DOMAIN table : table[i].uuid = sessionUUID}
    IN IF hit = {} THEN [id |-> NoID, err |-> ErrNoRows]
       ELSE [id |-> table[FirstIndex(hit)].id, err |-> Nil]

\* mongoSessionRepo.Create, first statement: return the session of the token if stored.
SessionGet(c) ==
    /\ rc[c].pc = "getuuid"
    /\ LET r == GetByUUID(db["memori_session"], rc[c].arg)
       IN /\ UNCHANGED db
          /\ IF r.err = Nil
             THEN Complete(c, r.id, Nil)
             ELSE /\ rc' = [rc EXCEPT ![c].pc = "seq"]
                  /\ UNCHANGED calls
    /\ UNCHANGED <<stream, dialect, schema, registry, manager, now, memori_counters, ncalls, augVars, writerVars>>

\* Session.Create, the insert. SQL: an error leads to GetByUUID; Mongo: it is returned.
SessionInsert(c) ==
    /\ rc[c].pc = "insert"
    /\ rc[c].op = "Session.Create"
    /\ LET coll == "memori_session"
           id == IF dialect = "mongodb" THEN rc[c].seq ELSE memori_counters[coll] + 1
           r == InsertRow(dialect, coll, db[coll],
                          [id |-> id, uuid |-> rc[c].arg, entity_id |-> <<>>,
                           process_id |-> <<>>])
       IN /\ db' = [db EXCEPT ![coll] = r.table]
          /\ IF r.err = Nil
             THEN /\ memori_counters' =
                        IF dialect = "mongodb" THEN memori_counters
                        ELSE [memori_counters EXCEPT ![coll] = id]
                  /\ Complete(c, id, Nil)
             ELSE IF dialect = "mongodb"
                  THEN /\ Complete(c, NoID, r.err)
                       /\ UNCHANGED memori_counters
                  ELSE /\ rc' = [rc EXCEPT ![c].pc = "getuuid-after"]
                       /\ UNCHANGED <<stream, memori_counters, calls>>
    /\ UNCHANGED <<stream, dialect, schema, registry, manager, now, ncalls, augVars, writerVars>>

\* sqlSessionRepo.Create: return r.GetByUUID(sessionUUID) after the failed insert.
SessionFallback(c) ==
    /\ rc[c].pc = "getuuid-after"
    /\ LET r == GetByUUID(db["memori_session"], rc[c].arg)
       IN /\ UNCHANGED db
          /\ Complete(c, r.id, r.err)
    /\ UNCHANGED <<stream, dialect, schema, registry, manager, now, memori_counters, ncalls, augVars, writerVars>>

\* Conversation.Create, first statement: read the most recent conversation of the session.
ConvSelect(c) ==
    /\ rc[c].pc = "select"
    /\ LET table == db["memori_conversation"]
           latest == LatestConversations(table, rc[c].arg)
       IN /\ UNCHANGED db
          /\ IF latest = {}
             THEN /\ rc' = [rc EXCEPT ![c].pc = IF dialect = "mongodb" THEN "seq" ELSE "insert"]
                  /\ UNCHANGED calls
             ELSE \E i \in latest :
                    LET seen == [id |-> table[i].id, age |-> now - table[i].date_created]
                    IN IF StillValid(table[i].date_created, now, rc[c].ttl)
                       THEN /\ calls' = calls \cup
                                  {[n |-> rc[c].n, op |-> rc[c].op, arg |-> rc[c].arg,
                                    ttl |-> rc[c].ttl, obs |-> seen, id |-> table[i].id,
                                    err |-> Nil]}
                            /\ rc' = [rc EXCEPT ![c] = Idle]
                       ELSE /\ rc' = [rc EXCEPT ![c].obs = seen,
                                                ![c].pc = IF dialect = "mongodb" THEN "seq"
                                                          ELSE "insert"]
                            /\ UNCHANGED calls
    /\ UNCHANGED <<stream, dialect, schema, registry, manager, now, memori_counters, ncalls, augVars, writerVars>>

\* Conversation.Create, last statement: insert a new conversation for the session.
ConvInsert(c) ==
    /\ rc[c].pc = "insert"
    /\ rc[c].op = "Conversation.Create"
    /\ LET coll == "memori_conversation"
           id == IF dialect = "mongodb" THEN rc[c].seq ELSE memori_counters[coll] + 1
           r == InsertRow(dialect, coll, db[coll],
                          [id |-> id, session_id |-> rc[c].arg, date_created |-> now,
                           summary |-> <<>>])
       IN /\ db' = [db EXCEPT ![coll] = r.table]
          /\ memori_counters' =
                IF dialect = "mongodb" \/ r.err # Nil THEN memori_counters
                ELSE [memori_counters EXCEPT ![coll] = id]
          /\ Complete(c, IF r.err = Nil THEN id ELSE NoID, r.err)
    /\ UNCHANGED <<stream, dialect, schema, registry, manager, now, ncalls, augVars, writerVars>>

\* Wall-clock time passes.
Tick ==
    /\ now < MaxTime
    /\ now' = now + 1
    /\ UNCHANGED <<stream, dialect, schema, registry, manager, db, memori_counters, rc, ncalls, calls, augVars, writerVars>>

EmptyDB == [coll \in Collections |-> <<>>]

InitRepo ==
    /\ dialect \in Dialects
    /\ schema = Built(dialect)
    /\ registry = initRegistry
    /\ manager = Started(dialect)
    /\ now = 0
    /\ db = EmptyDB
    /\ memori_counters = [coll \in Collections |-> 0]
    /\ rc = [c \in Clients |-> Idle]
    /\ ncalls = 0
    /\ calls = {}
    /\ queue = <<>>
    /\ started = FALSE
    /\ spawned = 0
    /\ wk = [w \in Workers |-> Receiving]
    /\ nenq = 0
    /\ upserted = <<>>
    /\ conn = dialect
    /\ Config = newConfig
    /\ Cache = EmptyCache
    /\ wr = [c \in Writers |-> WriterIdle]
    /\ nexec = 0
    /\ nfail = 0
    /\ ncfg = 0
    /\ ntokens = 1
    /\ limits = NoLimits
    /\ last = NoAttempt
    /\ recall = NoRecall
    /\ stream = NoStream

NextRepo ==
    \/ \E c \in Clients : RepoCall(c)
    \/ \E c \in Clients : RepoGet(c)
    \/ \E c \in Clients : RepoNextSeq(c)
    \/ \E c \in Clients : RepoInsert(c)
    \/ \E c \in Clients : RepoFallback(c)
    \/ \E c \in Clients : SessionGet(c)
    \/ \E c \in Clients : SessionInsert(c)
    \/ \E c \in Clients : SessionFallback(c)
    \/ \E c \in Clients : ConvSelect(c)
    \/ \E c \in Clients : ConvInsert(c)
    \/ Tick

SpecRepo == InitRepo /\ [][NextRepo]_vars

----------------------------------------------------------------------------
(* Augmentation pipeline: text helpers *)

\* Text is a sequence of characters.
Spaces == {" ", "\n", "\t"}

RECURSIVE TrimLeft(_)
TrimLeft(s) == IF s # <<>> /\ Head(s) \in Spaces THEN TrimLeft(Tail(s)) ELSE s

RECURSIVE TrimRight(_)
TrimRight(s) ==
    IF s # <<>> /\ s[Len(s)] \in Spaces THEN TrimRight(SubSeq(s, 1, Len(s) - 1)) ELSE s

\* strings.TrimSpace
TrimSpace(s) == TrimRight(TrimLeft(s))

\* content[:n] when len(content) > n
CutTo(s, n) == IF Len(s) > n THEN SubSeq(s, 1, n) ELSE s

maxFactLen == 500

\* hashString: SHA-256 of the text in hex; modelled as an injective tag of the text.
hashString(s) == <<"sha256", s>>

\* A fact extraction that takes the assistant's and the system's texts and skips the
\* user's.
RECURSIVE CandidateFactsSkipUser(_)
CandidateFactsSkipUser(msgs) ==
    IF msgs = <<>> THEN <<>>
    ELSE LET content == TrimSpace(Head(msgs).Content)
         IN IF Head(msgs).Role = "user" \/ content = <<>>
            THEN CandidateFactsSkipUser(Tail(msgs))
            ELSE <<CutTo(content, maxFactLen)>> \o CandidateFactsSkipUser(Tail(msgs))

\* A fact extraction that takes the trimmed texts whole.
RECURSIVE CandidateFactsUncut(_)
CandidateFactsUncut(msgs) ==
    IF msgs = <<>> THEN <<>>
    ELSE LET content == TrimSpace(Head(msgs).Content)
         IN IF Head(msgs).Role = "system" \/ content = <<>>
            THEN CandidateFactsUncut(Tail(msgs))
            ELSE <<content>> \o CandidateFactsUncut(Tail(msgs))

\* The candidate facts of a job: trimmed non-empty contents of its non-system messages.
RECURSIVE CandidateFacts(_)
CandidateFacts(msgs) ==
    IF msgs = <<>> THEN <<>>
    ELSE LET content == TrimSpace(Head(msgs).Content)
         IN IF Head(msgs).Role = "system" \/ content = <<>>
            THEN CandidateFacts(Tail(msgs))
            ELSE <<CutTo(content, maxFactLen)>> \o CandidateFacts(Tail(msgs))

RECURSIVE Join(_, _)
Join(parts, sep) ==
    IF parts = <<>> THEN <<>>
    ELSE IF Len(parts) = 1 THEN parts[1]
    ELSE parts[1] \o sep \o Join(Tail(parts), sep)

maxLen == 512

\* The loop of buildSummary: collect trimmed non-system texts, stop once the joined
\* text is longer than maxLen.
RECURSIVE SummaryParts(_, _)
SummaryParts(msgs, parts) ==
    IF msgs = <<>> THEN parts
    ELSE LET text == TrimSpace(Head(msgs).Content)
         IN IF Head(msgs).Role = "system" \/ text = <<>>
            THEN SummaryParts(Tail(msgs), parts)
            ELSE IF Len(Join(Append(parts, text), <<"\n">>)) > maxLen
                 THEN Append(parts, text)
                 ELSE SummaryParts(Tail(msgs), Append(parts, text))

\* A summary that is not cut.
buildSummaryUncut(msgs) == Join(SummaryParts(msgs, <<>>), <<"\n">>)

buildSummary(msgs) == CutTo(Join(SummaryParts(msgs, <<>>), <<"\n">>), maxLen)

----------------------------------------------------------------------------
(* Embedding and similarity *)

dim == 64

\* fnv.New64a of one character, as int64, % 1000: the component added for the
\* character, kept to its first decimal digit (tenths).
charValue(ch) ==
    CASE ch = "a" -> -7
      [] ch = "b" -> -4
      [] ch = "c" -> -1
      [] ch = "s" -> -6
      [] ch = "r" -> -8
      [] ch = " " -> -2
      [] ch = "q" -> -1
      [] OTHER -> 0

\* The loop of embedText from character j on: v[i % dim] += value of the character,
\* taken dim characters at a time (each of them falls on another component).
RECURSIVE Accumulate(_, _, _)
Accumulate(v, text, j) ==
    IF j > Len(text) THEN v
    ELSE LET at(i) == j + (((i - 1) + dim - ((j - 1) % dim)) % dim)
         IN Accumulate([i \in 1..dim |->
                           v[i] + (IF at(i) <= Len(text) THEN charValue(text[at(i)]) ELSE 0)],
                       text, j + dim)

\* embedText: a vector of dim components, all zero for the empty text.
embedText(text) == Accumulate([i \in 1..dim |-> 0], text, 1)

\* The four bytes of one component, most significant first.
Bytes4BigEndian(x) ==
    <<(x \div 16777216) % 256, (x \div 65536) % 256, (x \div 256) % 256, x % 256>>

\* The four little-endian bytes of one component (two's complement of its value
\* standing for the IEEE-754 bit pattern).
Bytes4(x) ==
    <<x % 256, (x \div 256) % 256, (x \div 65536) % 256, (x \div 16777216) % 256>>

\* The component held by four little-endian bytes.
FromBytes4(b) ==
    b[1] + 256 * b[2] + 65536 * b[3] + 16777216 * (IF b[4] >= 128 THEN b[4] - 256 ELSE b[4])

\* encodeEmbedding: nil for the empty vector, else 4 bytes per component.
encodeEmbedding(v) ==
    [i \in 1..(4 * Len(v)) |-> Bytes4(v[((i - 1) \div 4) + 1])[((i - 1) % 4) + 1]]

\* A decodeEmbedding that decodes the whole groups of four bytes and drops the rest.
decodeEmbeddingTruncates(b) ==
    [i \in 1..(Len(b) \div 4) |-> FromBytes4(SubSeq(b, 4 * i - 3, 4 * i))]

\* decodeEmbedding: nil when the length is 0 or not a multiple of 4.
decodeEmbedding(b) ==
    IF Len(b) = 0 \/ Len(b) % 4 # 0 THEN <<>>
    ELSE [i \in 1..(Len(b) \div 4) |-> FromBytes4(SubSeq(b, 4 * i - 3, 4 * i))]

RECURSIVE DotFrom(_, _, _)
DotFrom(a, b, i) == IF i > Len(a) THEN 0 ELSE a[i] * b[i] + DotFrom(a, b, i + 1)

RECURSIVE GCD(_, _)
GCD(x, y) == IF y = 0 THEN x ELSE GCD(y, x % y)

Abs(x) == IF x < 0 THEN -x ELSE x

\* A score dot / (sqrt(na) * sqrt(nb)) is kept as the fraction sign(dot) * dot^2 / (na * nb)
\* in lowest terms: equal scores have equal fractions, a greater score a greater one.
Fraction(num, den) ==
    LET g == GCD(Abs(num), den) IN [num |-> num \div g, den |-> den \div g]

ZeroScore == [num |-> 0, den |-> 1]

cosineSimilarity(a, b) ==
    IF Len(a) = 0 \/ Len(b) = 0 \/ Len(a) # Len(b) THEN ZeroScore
    ELSE LET dot == DotFrom(a, b, 1)
             na == DotFrom(a, a, 1)
             nb == DotFrom(b, b, 1)
         IN IF na = 0 \/ nb = 0 THEN ZeroScore
            ELSE Fraction((IF dot < 0 THEN -1 ELSE 1) * dot * dot, na * nb)

\* A similarity that compares vectors of different lengths over the shorter length.
CosineSimilarityOverPrefix(a, b) ==
    LET n == IF Len(a) < Len(b) THEN Len(a) ELSE Len(b)
        dotProduct == DotFrom(SubSeq(a, 1, n), SubSeq(b, 1, n), 1)
        normA == DotFrom(a, a, 1)
        normB == DotFrom(b, b, 1)
    IN IF normA = 0 \/ normB = 0 THEN ZeroScore
       ELSE Fraction(dotProduct, normA * normB)

\* embed.CosineSimilarity, which memori.CosineSimilarity returns: the value
\* dotProduct / (normA * normB) as a fraction in lowest terms.
CosineSimilarity(a, b) ==
    IF Len(a) # Len(b) THEN ZeroScore
    ELSE LET dotProduct == DotFrom(a, b, 1)
             normA == DotFrom(a, a, 1)
             normB == DotFrom(b, b, 1)
         IN IF normA = 0 \/ normB = 0 THEN ZeroScore
            ELSE Fraction(dotProduct, normA * normB)

\* x.Score > y.Score
ScoreGreater(x, y) == x.num * y.den > y.num * x.den

----------------------------------------------------------------------------
(* Fact and summary statements *)

FactRows(table, entityID, uniq) ==
    {i \in DOMAIN table : table[i].entity_id = entityID /\ table[i].uniq = uniq}

\* An upsert that always inserts (no conflict target).
FactUpsertAlwaysInserts(d, table, entityID, content, embedding, uniq, t) ==
    Append(table, [entity_id |-> entityID, uniq |-> uniq, content |-> content,
                   content_embedding |-> embedding, num_times |-> 1, date_last_time |-> t])

\* Fact.Upsert, one statement.
\* SQL: INSERT ... ON CONFLICT(entity_id, uniq) DO UPDATE SET num_times = num_times + 1,
\*      date_last_time = now (content and content_embedding are left as stored).
\* Mongo: UpdateOne(filter {entity_id, uniq}, $set content/content_embedding/
\*      date_last_time, $inc num_times, upsert).
FactUpsert(d, table, entityID, content, embedding, uniq, t) ==
    LET hit == FactRows(table, entityID, uniq)
    IN IF hit = {}
       THEN Append(table, [entity_id |-> entityID, uniq |-> uniq, content |-> content,
                           content_embedding |-> embedding, num_times |-> 1,
                           date_last_time |-> t])
       ELSE IF d = "mongodb"
            THEN [table EXCEPT ![FirstIndex(hit)] =
                      [@ EXCEPT !.content = content, !.content_embedding = embedding,
                                !.num_times = @ + 1, !.date_last_time = t]]
            ELSE [i \in DOMAIN table |->
                      IF i \in hit
                      THEN [table[i] EXCEPT !.num_times = @ + 1, !.date_last_time = t]
                      ELSE table[i]]

\* Conversation.UpdateSummary: UPDATE ... WHERE id = ? / UpdateOne({id}).
UpdateSummary(d, table, conversationID, summary) ==
    LET hit == {i \in DOMAIN table : table[i].id = conversationID}
    IN [i \in DOMAIN table |->
           IF i \in hit /\ (d # "mongodb" \/ i = FirstIndex(hit))
           THEN [table[i] EXCEPT !.summary = summary]
           ELSE table[i]]

----------------------------------------------------------------------------
(* Augmentation pipeline: queue and workers *)

MaxEnqueues == 3

\* AugmentationInput.ConversationID is an `any`: <<>> is nil, <<id>> holds an int64.
NilConv == <<>>

Msg(role, content) == [Role |-> role, Type |-> "text", Content |-> content]

\* The jobs offered in the model.
JobInputs ==
    { [ConversationID |-> <<1>>, EntityID |-> "u1", ProcessID |-> "p1",
       Messages |-> <<Msg("user", <<"a">>)>>],
      [ConversationID |-> NilConv, EntityID |-> "u1", ProcessID |-> "",
       Messages |-> <<Msg("system", <<"s">>), Msg("user", <<" ", "a", " ">>),
                      Msg("assistant", <<"b">>)>>],
      [ConversationID |-> <<1>>, EntityID |-> "u2", ProcessID |-> "p1",
       Messages |-> <<Msg("user", <<"a">>)>>],
      [ConversationID |-> <<1>>, EntityID |-> "", ProcessID |-> "p1",
       Messages |-> <<Msg("user", <<"a">>)>>],
      [ConversationID |-> <<1>>, EntityID |-> "u1", ProcessID |-> "p1",
       Messages |-> <<Msg("user", <<" ">>)>>] }

\* A Start that starts the workers at every call.
startEveryTime(done, n) == n + workers

\* AugmentationManager.Start: startOnce.Do runs the loop of go m.worker() at its first
\* call and not again; the number of worker goroutines after the call.
startOnce(done, n) == IF done THEN n ELSE n + workers

\* A send that always appends, as on a channel without capacity limit.
OfferUnbounded(q, input) == Append(q, input)

\* The non-blocking send of Enqueue: select { case queue <- input: default: }.
Offer(q, input) == IF Len(q) < queueCap THEN Append(q, input) ELSE q

\* AugmentationManager.Enqueue
Enqueue(input) ==
    /\ nenq < MaxEnqueues
    /\ nenq' = nenq + 1
    /\ IF input.EntityID = ""
       THEN UNCHANGED <<stream, queue, started, spawned>>
       ELSE /\ started' = TRUE
            /\ spawned' = startOnce(started, spawned)
            /\ queue' = Offer(queue, input)
    /\ UNCHANGED <<stream, storeVars, repoVars, writerVars, wk, upserted>>

\* Workers are interchangeable: the receive is given to the lowest-numbered worker
\* that waits on the channel.
IsFirstReceiver(w) ==
    /\ wk[w].pc = "recv"
    /\ \A v \in Workers : v < w => wk[v].pc # "recv"

\* A receive that leaves the job in the channel.
WorkerReceivePeeks(w) ==
    /\ started
    /\ IsFirstReceiver(w)
    /\ queue # <<>>
    /\ wk' = [wk EXCEPT ![w] = [pc |-> "resolve", job |-> Head(queue),
                                entityID |-> NoID, facts |-> <<>>, errs |-> <<>>]]
    /\ UNCHANGED <<stream, storeVars, repoVars, writerVars, queue, started, spawned, nenq, upserted>>

\* worker(): for in := range m.queue
WorkerReceive(w) ==
    /\ started
    /\ IsFirstReceiver(w)
    /\ queue # <<>>
    /\ wk' = [wk EXCEPT ![w] = [pc |-> "resolve", job |-> Head(queue),
                                entityID |-> NoID, facts |-> <<>>, errs |-> <<>>]]
    /\ queue' = Tail(queue)
    /\ UNCHANGED <<stream, storeVars, repoVars, writerVars, started, spawned, nenq, upserted>>

AfterFacts(state) ==
    IF state.facts # <<>> THEN [state EXCEPT !.pc = "upsert"]
    ELSE IF state.job.ConversationID # NilConv THEN [state EXCEPT !.pc = "summary"]
    ELSE Receiving

\* A resolution that goes on when the identity is not stored.
WorkerResolveIgnoresError(w) ==
    /\ wk[w].pc = "resolve"
    /\ LET r == GetByExternalID(db["memori_entity"], wk[w].job.EntityID)
       IN wk' = [wk EXCEPT ![w] =
                    AfterFacts([wk[w] EXCEPT !.entityID = r.id,
                                             !.facts = CandidateFacts(wk[w].job.Messages)])]
    /\ UNCHANGED <<stream, storeVars, repoVars, writerVars, queue, started, spawned, nenq, upserted>>

\* processInput: resolve the internal entity id, then extract the candidate facts.
WorkerResolve(w) ==
    /\ wk[w].pc = "resolve"
    /\ LET r == GetByExternalID(db["memori_entity"], wk[w].job.EntityID)
       IN wk' = [wk EXCEPT ![w] =
                    IF r.err # Nil THEN Receiving
                    ELSE AfterFacts([wk[w] EXCEPT !.entityID = r.id,
                                                  !.facts = CandidateFacts(wk[w].job.Messages)])]
    /\ UNCHANGED <<stream, storeVars, repoVars, writerVars, queue, started, spawned, nenq, upserted>>

Count(f, p) == IF p \in DOMAIN f THEN f[p] ELSE 0

Bump(f, p) == [x \in DOMAIN f \cup {p} |-> IF x = p THEN Count(f, p) + 1 ELSE f[x]]

\* A worker that ends the job at the first error of a repository call.
AfterCallReturnsOnError(state, err) == IF err # Nil THEN Receiving ELSE AfterFacts(state)

\* `_ = factRepo.Upsert(...)`: the error is dropped and the loop goes on.
AfterCall(state, err) ==
    AfterFacts(IF err = Nil THEN state ELSE [state EXCEPT !.errs = Append(@, err)])

\* The errors a worker's repository call may return in a run that has backend failures.
WorkerErrors == IF nfail < limits.faults THEN {Nil} \cup BackendErrors ELSE {Nil}

\* processInput: one factRepo.Upsert of the loop over the facts.
WorkerUpsert(w) ==
    /\ wk[w].pc = "upsert"
    /\ \E err \in WorkerErrors :
         LET f == Head(wk[w].facts)
             uniq == hashString(f)
         IN /\ IF err = Nil
               THEN /\ db' = [db EXCEPT !["memori_entity_fact"] =
                                 FactUpsert(dialect, @, wk[w].entityID, f,
                                            encodeEmbedding(embedText(f)), uniq, now)]
                    /\ upserted' = Bump(upserted, <<wk[w].entityID, uniq>>)
                    /\ UNCHANGED nfail
               ELSE /\ nfail' = nfail + 1
                    /\ UNCHANGED <<stream, db, upserted>>
            /\ wk' = [wk EXCEPT ![w] = AfterCall([wk[w] EXCEPT !.facts = Tail(@)], err)]
    /\ UNCHANGED <<stream, dialect, schema, registry, manager, now, memori_counters, repoVars, queue, started, spawned, nenq, conn, Config,
                   Cache, wr, nexec, ncfg, ntokens, limits, last, recall>>

\* processInput: `_ = repos.Conversation().UpdateSummary(convID, summary)`, the last
\* statement of the job.
WorkerSummary(w) ==
    /\ wk[w].pc = "summary"
    /\ \E err \in WorkerErrors :
         IF err = Nil
         THEN /\ db' = [db EXCEPT !["memori_conversation"] =
                           UpdateSummary(dialect, @, wk[w].job.ConversationID[1],
                                         buildSummary(wk[w].job.Messages))]
              /\ UNCHANGED nfail
         ELSE /\ nfail' = nfail + 1
              /\ UNCHANGED db
    /\ wk' = [wk EXCEPT ![w] = Receiving]
    /\ UNCHANGED <<stream, dialect, schema, registry, manager, now, memori_counters, repoVars, queue, started, spawned, nenq, upserted,
                   conn, Config, Cache, wr, nexec, ncfg, ntokens, limits, last, recall>>

TickAug ==
    /\ now < MaxTime
    /\ now' = now + 1
    /\ UNCHANGED <<stream, dialect, schema, registry, manager, db, memori_counters, repoVars, augVars, writerVars>>

\* A migrated store that holds the identity "u1", a session and its conversation,
\* as left by an earlier Writer.Execute.
InitAug ==
    /\ dialect \in Dialects
    /\ schema = Built(dialect)
    /\ registry = initRegistry
    /\ manager = Started(dialect)
    /\ now = 0
    /\ db = [EmptyDB EXCEPT
                !["memori_entity"] = <<[id |-> 1, external_id |-> "u1"]>>,
                !["memori_conversation"] =
                    <<[id |-> 1, session_id |-> 1, date_created |-> 0, summary |-> <<>>]>>]
    /\ memori_counters = [coll \in Collections |->
                             IF coll \in {"memori_entity", "memori_conversation"} THEN 1 ELSE 0]
    /\ rc = [c \in Clients |-> Idle]
    /\ ncalls = 0
    /\ calls = {}
    /\ queue = <<>>
    /\ started = FALSE
    /\ spawned = 0
    /\ wk = [w \in Workers |-> Receiving]
    /\ nenq = 0
    /\ upserted = <<>>
    /\ conn = dialect
    /\ Config = newConfig
    /\ Cache = EmptyCache
    /\ wr = [c \in Writers |-> WriterIdle]
    /\ nexec = 0
    /\ nfail = 0
    /\ ncfg = 0
    /\ ntokens = 1
    /\ limits = NoLimits
    /\ last = NoAttempt
    /\ recall = NoRecall
    /\ stream = NoStream

NextAug ==
    \/ \E input \in JobInputs : Enqueue(input)
    \/ \E w \in Workers : WorkerReceive(w)
    \/ \E w \in Workers : WorkerResolve(w)
    \/ \E w \in Workers : WorkerUpsert(w)
    \/ \E w \in Workers : WorkerSummary(w)
    \/ TickAug

SpecAug == InitAug /\ [][NextAug]_vars

\* C1: for every (identity, fingerprint) pair the stored occurrence count equals the
\* number of Fact.upsert calls made with the pair (1 after the first call, one more
\* after each further call), and never more than one fact row exists for the pair,
\* whatever the interleaving of the workers.
C1_UpsertCountsEveryCall ==
    /\ \A p \in DOMAIN upserted :
          LET rows == FactRows(db["memori_entity_fact"], p[1], p[2])
          IN /\ Cardinality(rows) = 1
             /\ \A i \in rows : db["memori_entity_fact"][i].num_times = upserted[p]
    /\ \A i \in DOMAIN db["memori_entity_fact"] :
          LET r == db["memori_entity_fact"][i]
          IN /\ <<r.entity_id, r.uniq>> \in DOMAIN upserted
             /\ Cardinality(FactRows(db["memori_entity_fact"], r.entity_id, r.uniq)) = 1

\* C1 witness: two workers are inside processInput at once, one about to upsert a pair
\* that already counts two occurrences.
C1_Witness ==
    \E w1, w2 \in Workers :
        /\ w1 # w2
        /\ wk[w1].pc = "upsert"
        /\ wk[w2].pc \in {"upsert", "summary"}
        /\ Count(upserted, <<wk[w1].entityID, hashString(Head(wk[w1].facts))>>) = 2

----------------------------------------------------------------------------
(* Properties of the repository set *)

CreateCalls == {k \in calls : k.op \in {"Entity.Create", "Process.Create"}}

RowsOf(coll, externalID) == {i \in DOMAIN db[coll] : db[coll][i].external_id = externalID}

\* C2: every Identity.create(e) / Process.create(e) call returns without error, all
\* calls for the same e return the same internal id, and exactly one row exists for e.
C2_CreateIsIdempotent ==
    \A k \in CreateCalls :
        /\ k.err = Nil
        /\ k.id # NoID
        /\ \A k2 \in CreateCalls : (k2.op = k.op /\ k2.arg = k.arg) => k2.id = k.id
        /\ Cardinality(RowsOf(CollOf(k.op), k.arg)) = 1

\* C2 witness: two calls of the same create with the same external id have returned.
C2_Witness ==
    \E k1, k2 \in CreateCalls :
        /\ k1.n < k2.n
        /\ k2.op = k1.op
        /\ k2.arg = k1.arg

ConvCalls == {k \in calls : k.op = "Conversation.Create"}

HasConversation(id, sessionID) ==
    \E i \in DOMAIN db["memori_conversation"] :
        /\ db["memori_conversation"][i].id = id
        /\ db["memori_conversation"][i].session_id = sessionID

\* C3: in every dialect a Conversation.create that found the session's most recent
\* conversation younger than ttl returns that conversation's id, and one that found
\* it aged ttl or more succeeds, inserts a new conversation and returns its new id.
C3_ConversationReuseThenRenew ==
    \A k \in ConvCalls :
        k.obs.id # NoID =>
            IF k.obs.age < k.ttl
            THEN k.err = Nil /\ k.id = k.obs.id
            ELSE k.err = Nil /\ k.id # NoID /\ k.id # k.obs.id /\ HasConversation(k.id, k.arg)

\* The same statement for the relational dialects alone.
C3_RelationalOnly == dialect \in SQLDialects => C3_ConversationReuseThenRenew

GetOrCreateCalls ==
    {k \in calls : k.op \in {"Entity.Create", "Process.Create", "Session.Create"}}

\* The rows stored for the key of a get-or-create call.
RowsOfKey(k) ==
    IF k.op = "Session.Create"
    THEN {i \in DOMAIN db["memori_session"] : db["memori_session"][i].uuid = k.arg}
    ELSE RowsOf(CollOf(k.op), k.arg)

\* C16: in every dialect, every Identity.create, Process.create and Session.create call
\* returns success, also when another caller's call for the same key runs at the same
\* time; the calls for one key return the same internal id, and exactly one row exists
\* for the key.
C16_ConcurrentCreateConverges ==
    \A k \in GetOrCreateCalls :
        /\ k.err = Nil
        /\ k.id # NoID
        /\ \A k2 \in GetOrCreateCalls : (k2.op = k.op /\ k2.arg = k.arg) => k2.id = k.id
        /\ Cardinality(RowsOfKey(k)) = 1

\* The same statement without the document dialect's Session.create.
C16_ExceptMongoSession ==
    \A k \in GetOrCreateCalls :
        (k.op = "Session.Create" /\ dialect = "mongodb") \/
        ( /\ k.err = Nil
          /\ k.id # NoID
          /\ \A k2 \in GetOrCreateCalls : (k2.op = k.op /\ k2.arg = k.arg) => k2.id = k.id
          /\ Cardinality(RowsOfKey(k)) = 1 )

----------------------------------------------------------------------------
(* Repository calls as whole calls, used under the Writer's configuration lock *)

\* A call's outcome: the store after it, the id it returns, its error.
Outcome(tables, ctr, id, err) == [db |-> tables, ctr |-> ctr, id |-> id, err |-> err]

\* Entity.Create / Process.Create run to completion on (tables, ctr).
CreateByExternalID(d, coll, tables, ctr, externalID) ==
    LET got == GetByExternalID(tables[coll], externalID)
        readsFirst == ~(coll = "memori_process" /\ d \in SQLDialects)
        id == ctr[coll] + 1
        ins == InsertRow(d, coll, tables[coll], [id |-> id, external_id |-> externalID])
        after == [tables EXCEPT ![coll] = ins.table]
        again == GetByExternalID(ins.table, externalID)
    IN IF readsFirst /\ got.err = Nil THEN Outcome(tables, ctr, got.id, Nil)
       ELSE IF ins.err = Nil THEN Outcome(after, [ctr EXCEPT ![coll] = id], id, Nil)
       ELSE IF d = "mongodb" THEN Outcome(tables, [ctr EXCEPT ![coll] = id], again.id, again.err)
       ELSE Outcome(tables, ctr, again.id, again.err)

\* A Session.Create that writes the links of the call into the stored session of the token.
SessionCreateRelinks(d, tables, ctr, entityID, processID, sessionUUID) ==
    LET coll == "memori_session"
        got == GetByUUID(tables[coll], sessionUUID)
        id == ctr[coll] + 1
        row == [id |-> id, uuid |-> sessionUUID, entity_id |-> entityID,
                process_id |-> processID]
    IN IF got.err = Nil
       THEN Outcome([tables EXCEPT ![coll] =
                        [i \in DOMAIN @ |-> IF @[i].uuid = sessionUUID
                                            THEN [@[i] EXCEPT !.entity_id = entityID,
                                                              !.process_id = processID]
                                            ELSE @[i]]],
                    ctr, got.id, Nil)
       ELSE Outcome([tables EXCEPT ![coll] = Append(@, row)], [ctr EXCEPT ![coll] = id], id, Nil)

\* Session.Create run to completion. SQL: insert, on error read the row of the token.
\* Mongo: read first, then nextSeq and insert; an insert error is returned.
SessionCreate(d, tables, ctr, entityID, processID, sessionUUID) ==
    LET coll == "memori_session"
        got == GetByUUID(tables[coll], sessionUUID)
        id == ctr[coll] + 1
        ins == InsertRow(d, coll, tables[coll],
                         [id |-> id, uuid |-> sessionUUID, entity_id |-> entityID,
                          process_id |-> processID])
        after == [tables EXCEPT ![coll] = ins.table]
    IN IF d = "mongodb"
       THEN IF got.err = Nil THEN Outcome(tables, ctr, got.id, Nil)
            ELSE IF ins.err = Nil THEN Outcome(after, [ctr EXCEPT ![coll] = id], id, Nil)
            ELSE Outcome(tables, [ctr EXCEPT ![coll] = id], NoID, ins.err)
       ELSE IF ins.err = Nil THEN Outcome(after, [ctr EXCEPT ![coll] = id], id, Nil)
            ELSE Outcome(tables, ctr, got.id, got.err)

\* Conversation.Create run to completion at time t (see ConvSelect / ConvInsert).
ConversationCreate(d, tables, ctr, sessionID, timeoutMinutes, t) ==
    LET coll == "memori_conversation"
        latest == LatestConversations(tables[coll], sessionID)
        pick == FirstIndex(latest)
        id == ctr[coll] + 1
        ins == InsertRow(d, coll, tables[coll],
                         [id |-> id, session_id |-> sessionID, date_created |-> t,
                          summary |-> <<>>])
        after == [tables EXCEPT ![coll] = ins.table]
    IN IF latest # {} /\ StillValid(tables[coll][pick].date_created, t, timeoutMinutes)
       THEN Outcome(tables, ctr, tables[coll][pick].id, Nil)
       ELSE IF ins.err = Nil THEN Outcome(after, [ctr EXCEPT ![coll] = id], id, Nil)
       ELSE Outcome(tables, IF d = "mongodb" THEN [ctr EXCEPT ![coll] = id] ELSE ctr,
                    NoID, ins.err)

\* Message.Create: a plain insert.
MessageCreate(d, tables, ctr, conversationID, msg) ==
    LET coll == "memori_conversation_message"
        ins == InsertRow(d, coll, tables[coll],
                         [conversation_id |-> conversationID, role |-> msg.Role,
                          type |-> msg.Type, content |-> msg.Content])
    IN Outcome([tables EXCEPT ![coll] = ins.table], ctr, NoID, ins.err)

----------------------------------------------------------------------------
(* Writer *)

maxRetries == 3
retryBackoffBase == 100   \* milliseconds

MaxExecs == 2
MaxFailures == 1
MaxConfigOps == 1

RECURSIVE Pow2(_)
Pow2(n) == IF n = 0 THEN 1 ELSE 2 * Pow2(n - 1)

\* indexOfSubstring(s, substr) >= 0, on texts given as sequences of words
HasSubstring(s, substr) ==
    \E i \in 0..(Len(s) - Len(substr)) : SubSeq(s, i + 1, i + Len(substr)) = substr

\* contains(s, substr)
contains(s, substr) ==
    Len(s) >= Len(substr) /\ (s = substr \/ Len(substr) = 0 \/ HasSubstring(s, substr))

\* A classification that retries on every error.
isRetriableErrorAlways(err) == err # Nil

isRetriableError(err) ==
    IF err = Nil THEN FALSE
    ELSE contains(err, <<"restart", "transaction">>) \/ contains(err, <<"serialization", "failure">>)

ErrMaxRetries == <<"max", "retries", "exceeded">>

Payloads ==
    { [Messages |-> <<Msg("user", <<"a">>)>>, Response |-> <<Msg("assistant", <<"b">>)>>],
      [Messages |-> <<Msg("system", <<"s">>), Msg("user", <<"a">>), Msg("user", <<"c">>)>>,
       Response |-> <<>>],
      [Messages |-> <<Msg("user", <<"a">>), Msg("system", <<"s">>)>>,
       Response |-> <<Msg("system", <<"r">>)>>] }

\* A cache that never holds an id.
CachedIDNever(cache, cacheKey) == <<>>

\* ensureCachedID: the cached pointer for a key (<<>> when nil)
CachedID(cache, cacheKey) == cache[cacheKey]

\* The state threaded through executeTransaction: store, cache, queue, number of
\* repository calls made (k), the id of the latest resolution, the error returned.
TxStart ==
    [db |-> db, ctr |-> memori_counters, cache |-> Cache, queue |-> queue,
     started |-> started, spawned |-> spawned, k |-> 0, creates |-> 0, offers |-> <<>>, id |-> NoID, err |-> Nil]

\* F applied to the value of e, with e evaluated once.
Bind(e, F(_)) == CHOOSE r \in {F(x) : x \in {e}} : TRUE

\* One repository call: it fails with ferr when it is the failAt-th call of the attempt.
RepoResult(st, failAt, ferr, out) ==
    IF st.k + 1 = failAt
    THEN [st EXCEPT !.k = @ + 1, !.id = NoID, !.err = ferr]
    ELSE Bind(out, LAMBDA o :
              [st EXCEPT !.k = @ + 1, !.db = o.db, !.ctr = o.ctr, !.id = o.id, !.err = o.err])

\* ensureCachedID around a create call whose outcome on st is `out`.
ensureCachedID(st, cacheKey, failAt, ferr, out) ==
    IF st.err # Nil THEN st
    ELSE IF CachedID(st.cache, cacheKey) # <<>>
         THEN [st EXCEPT !.id = CachedID(st.cache, cacheKey)[1]]
         ELSE Bind([RepoResult(st, failAt, ferr, out) EXCEPT !.creates = @ + 1], LAMBDA r :
                   IF r.err # Nil THEN r
                   ELSE [r EXCEPT !.cache = [@ EXCEPT ![cacheKey] = <<r.id>>]])

\* A writer loop that stores system messages too.
RECURSIVE WriteMessagesAll(_, _, _, _, _)
WriteMessagesAll(st, msgs, conversationID, failAt, ferr) ==
    IF msgs = <<>> \/ st.err # Nil THEN st
    ELSE Bind(RepoResult(st, failAt, ferr,
                         MessageCreate(dialect, st.db, st.ctr, conversationID, Head(msgs))),
              LAMBDA next : WriteMessagesAll(next, Tail(msgs), conversationID, failAt, ferr))

\* for _, msg := range payload.Messages { if msg.Role != "system" { msgRepo.Create } }
RECURSIVE WriteMessages(_, _, _, _, _)
WriteMessages(st, msgs, conversationID, failAt, ferr) ==
    IF msgs = <<>> \/ st.err # Nil THEN st
    ELSE IF Head(msgs).Role = "system"
         THEN WriteMessages(st, Tail(msgs), conversationID, failAt, ferr)
         ELSE Bind(RepoResult(st, failAt, ferr,
                              MessageCreate(dialect, st.db, st.ctr, conversationID, Head(msgs))),
                   LAMBDA next : WriteMessages(next, Tail(msgs), conversationID, failAt, ferr))

\* if payload.Response != nil { msgRepo.Create(response) }
WriteResponse(st, response, conversationID, failAt, ferr) ==
    IF response = <<>> \/ st.err # Nil THEN st
    ELSE RepoResult(st, failAt, ferr,
                    MessageCreate(dialect, st.db, st.ctr, conversationID, response[1]))

\* An Enqueue that accepts jobs without an identity.
EnqueueEffectAnyIdentity(st, input) ==
    IF st.err # Nil THEN st
    ELSE [st EXCEPT !.started = TRUE, !.spawned = startOnce(st.started, @),
                         !.queue = Offer(st.queue, input),
               !.offers = Append(@, [job |-> input, qlen |-> Len(st.queue),
                                     accepted |-> Len(st.queue) < queueCap])]

\* AugmentationManager.Enqueue called at the end of executeTransaction.
EnqueueEffect(st, input) ==
    IF st.err # Nil THEN st
    ELSE IF input.EntityID = ""
         THEN [st EXCEPT !.offers = Append(@, [job |-> input, qlen |-> Len(st.queue),
                                               accepted |-> FALSE])]
         ELSE [st EXCEPT !.started = TRUE, !.spawned = startOnce(st.started, @),
                         !.queue = Offer(st.queue, input),
                         !.offers = Append(@, [job |-> input, qlen |-> Len(st.queue),
                                               accepted |-> Len(st.queue) < queueCap])]

Ptr(st, isSet) == IF isSet THEN <<st.id>> ELSE <<>>

\* executeTransaction, under cfg.mu: resolve the four ids, write the messages and the
\* response, enqueue the augmentation job.
executeTransaction(payload, failAt, ferr) ==
    LET cfg == Config
        Entity(s0) ==
            IF cfg.EntityID # ""
            THEN ensureCachedID(s0, "entity_id", failAt, ferr,
                     CreateByExternalID(dialect, "memori_entity", s0.db, s0.ctr, cfg.EntityID))
            ELSE s0
        Process(s1) ==
            IF cfg.ProcessID # ""
            THEN ensureCachedID(s1, "process_id", failAt, ferr,
                     CreateByExternalID(dialect, "memori_process", s1.db, s1.ctr, cfg.ProcessID))
            ELSE s1
        Session(s2, entityID, processID) ==
            ensureCachedID(s2, "session_id", failAt, ferr,
                SessionCreate(dialect, s2.db, s2.ctr, entityID, processID, cfg.SessionID))
        Conversation(s3) ==
            ensureCachedID(s3, "conversation_id", failAt, ferr,
                ConversationCreate(dialect, s3.db, s3.ctr, s3.id, cfg.SessionTTL, now))
        Writes(s4) ==
            Bind(WriteMessages(s4, payload.Messages, s4.id, failAt, ferr), LAMBDA s5 :
            Bind(WriteResponse(s5, payload.Response, s4.id, failAt, ferr), LAMBDA s6 :
            Bind(EnqueueEffect(s6, [ConversationID |-> <<s4.id>>, EntityID |-> cfg.EntityID,
                                    ProcessID |-> cfg.ProcessID,
                                    Messages |-> payload.Messages]), LAMBDA s7 :
                 [s7 EXCEPT !.id = IF s4.err = Nil THEN s4.id ELSE NoID])))
    IN Bind(TxStart, LAMBDA s0 :
       Bind(Entity(s0), LAMBDA s1 :
       Bind(Process(s1), LAMBDA s2 :
       Bind(Session(s2, Ptr(s1, cfg.EntityID # ""), Ptr(s2, cfg.ProcessID # "")), LAMBDA s3 :
       Bind(Conversation(s3), LAMBDA s4 : Writes(s4))))))

\* A Start that binds a default backend when the connection is absent or unsupported.
StartBindsAnyway(c) == IF c \in Dialects THEN c ELSE "sqlite"

\* Manager.Start(conn): the dialect bound, "" when the manager stays unbound.
Start(c) == IF c \in Dialects THEN c ELSE ""

Conns == Dialects \cup {"none", "nil", "unsupported"}

\* Writer.Execute, up to the retry loop.
WriterExecute(c) ==
    /\ wr[c].pc \in {"idle", "done"}
    /\ nexec < limits.execs
    /\ nexec' = nexec + 1
    /\ \E payload \in Payloads :
         LET call == [pc |-> "run", n |-> nexec + 1, payload |-> payload, attempt |-> 0,
                      errs |-> <<>>, slept |-> <<>>, offers |-> <<>>, calls |-> 0,
                      bound |-> dialect # "", result |-> Nil]
         IN wr' = [wr EXCEPT ![c] = IF dialect = "" THEN [call EXCEPT !.pc = "done"] ELSE call]
    /\ UNCHANGED <<stream, storeVars, repoVars, augVars, conn, Config, Cache, nfail, ncfg, ntokens,
                   limits, last, recall>>

\* The most repository calls one executeTransaction can make: four resolutions, one
\* insert per message, one for the response.
MaxRepoCalls(payload) == 4 + Len(payload.Messages) + Len(payload.Response)

\* Backoff before the next attempt: retryBackoffBase * (1 << attempt)
Backoff(attempt) == retryBackoffBase * Pow2(attempt)

\* One pass of the retry loop of Writer.Execute: executeTransaction and what follows it.
WriterAttempt(c) ==
    /\ wr[c].pc = "run"
    /\ \E failAt \in 0..(IF nfail < limits.faults THEN MaxRepoCalls(wr[c].payload) ELSE 0) :
       \E ferr \in (IF failAt = 0 THEN {Nil} ELSE BackendErrors) :
       \E tx \in {executeTransaction(wr[c].payload, failAt, ferr)} :
         LET attempt == wr[c].attempt
             seen == [wr[c] EXCEPT !.errs = Append(@, tx.err), !.offers = @ \o tx.offers,
                                   !.calls = @ + tx.k]
         IN /\ failAt <= tx.k
            /\ (failAt # 0 => tx.err = ferr)
            /\ nfail' = IF failAt = 0 THEN nfail ELSE nfail + 1
            /\ db' = tx.db
            /\ memori_counters' = tx.ctr
            /\ Cache' = tx.cache
            /\ queue' = tx.queue
            /\ started' = tx.started
            /\ spawned' = tx.spawned
            /\ last' = [caller |-> c, n |-> wr[c].n, payload |-> wr[c].payload,
                        conv |-> tx.id, err |-> tx.err, creates |-> tx.creates,
                        from |-> Len(db["memori_conversation_message"]),
                        upto |-> Len(tx.db["memori_conversation_message"]),
                        qfrom |-> Len(queue), qupto |-> Len(tx.queue),
                        offers |-> tx.offers, cached |-> Cache, cfg |-> Config,
                        k |-> tx.k]
            /\ wr' = [wr EXCEPT ![c] =
                        IF tx.err = Nil THEN [seen EXCEPT !.pc = "done", !.result = Nil]
                        ELSE IF isRetriableError(tx.err) /\ attempt < maxRetries - 1
                        THEN IF attempt + 1 < maxRetries
                             THEN [seen EXCEPT !.attempt = @ + 1,
                                               !.slept = Append(@, Backoff(attempt))]
                             ELSE [seen EXCEPT !.pc = "done", !.result = ErrMaxRetries,
                                               !.slept = Append(@, Backoff(attempt))]
                        ELSE [seen EXCEPT !.pc = "done", !.result = tx.err]]
    /\ UNCHANGED <<stream, dialect, schema, registry, manager, now, repoVars, wk, nenq, upserted, conn, Config, nexec, ncfg,
                   ntokens, limits, recall>>

Attributions == { <<"u1", "p1">>, <<"u2", "">> }

maxExternalIDLen == 100

\* External ids at and beyond the limit: of 100 and of 101 one-byte characters, and of 51
\* two-byte characters.
ID100 == "x100"
ID101 == "x101"
Wide51 == "w51"

\* len(s) of Go: the number of bytes of an id.
byteLen(s) ==
    CASE s = "" -> 0
      [] s = ID100 -> 100
      [] s = ID101 -> 101
      [] s = Wide51 -> 102
      [] OTHER -> 2

\* The number of characters of an id.
chars(s) == IF s = Wide51 THEN 51 ELSE byteLen(s)

NoPanic == ""

SetAttributionChecksEntityOnly(cfg, entityID, processID) ==
    IF byteLen(entityID) > maxExternalIDLen
    THEN [Config |-> cfg, panic |-> "entity_id cannot be greater than 100 characters"]
    ELSE [Config |-> [cfg EXCEPT !.EntityID = entityID, !.ProcessID = processID],
          panic |-> NoPanic]

\* The body of Memori.Attribution: the configuration it leaves and the panic it raises.
SetAttribution(cfg, entityID, processID) ==
    IF byteLen(entityID) > maxExternalIDLen
    THEN [Config |-> cfg, panic |-> "entity_id cannot be greater than 100 characters"]
    ELSE IF byteLen(processID) > maxExternalIDLen
    THEN [Config |-> cfg, panic |-> "process_id cannot be greater than 100 characters"]
    ELSE [Config |-> [cfg EXCEPT !.EntityID = entityID, !.ProcessID = processID],
          panic |-> NoPanic]

\* Memori.Attribution
Attribution(entityID, processID) ==
    /\ ncfg < limits.cfgs
    /\ ncfg' = ncfg + 1
    /\ Config' = SetAttribution(Config, entityID, processID).Config
    /\ UNCHANGED <<stream, storeVars, repoVars, augVars, conn, Cache, wr, nexec, nfail, ntokens,
                   limits, last, recall>>

\* Memori.NewSession: a fresh token, then Config.ResetCache
NewSession ==
    /\ ncfg < limits.cfgs
    /\ ncfg' = ncfg + 1
    /\ ntokens' = ntokens + 1
    /\ Config' = [Config EXCEPT !.SessionID = ntokens + 1]
    /\ Cache' = EmptyCache
    /\ UNCHANGED <<stream, storeVars, repoVars, augVars, conn, wr, nexec, nfail, limits, last,
                   recall>>

\* Memori.SetSession
SetSession(id) ==
    /\ ncfg < limits.cfgs
    /\ ncfg' = ncfg + 1
    /\ Config' = [Config EXCEPT !.SessionID = id]
    /\ UNCHANGED <<stream, storeVars, repoVars, augVars, conn, Cache, wr, nexec, nfail, ntokens,
                   limits, last, recall>>

FillerJob == [ConversationID |-> <<>>, EntityID |-> "u9", ProcessID |-> "",
              Messages |-> <<>>]

\* The queue after n successive Offer(q, input): the sends beyond the capacity are dropped.
OfferTimes(q, input, n) ==
    LET len == IF Len(q) + n < queueCap THEN Len(q) + n ELSE queueCap
    IN [i \in 1..len |-> IF i <= Len(q) THEN q[i] ELSE input]

\* A burst of n Enqueue calls by one caller, before the first Execute and while no
\* worker is scheduled.
EnqueueBurst(n) ==
    /\ nenq = 0
    /\ nexec = 0
    /\ ncfg = 0
    /\ nenq' = n
    /\ started' = TRUE
    /\ spawned' = startOnce(started, spawned)
    /\ queue' = OfferTimes(queue, FillerJob, n)
    /\ UNCHANGED <<stream, storeVars, repoVars, writerVars, wk, upserted>>

\* memori.New(opts...): with or without WithStorageConn(conn)
InitWriter ==
    /\ conn \in Conns
    /\ dialect = Start(conn)
    /\ schema = Built(dialect)
    /\ registry = initRegistry
    /\ manager = Started(dialect)
    /\ now = 0
    /\ db = EmptyDB
    /\ memori_counters = [coll \in Collections |-> 0]
    /\ rc = [c \in Clients |-> Idle]
    /\ ncalls = 0
    /\ calls = {}
    /\ queue = <<>>
    /\ started = FALSE
    /\ spawned = 0
    /\ wk = [w \in Workers |-> Receiving]
    /\ nenq = 0
    /\ upserted = <<>>
    /\ Config = newConfig
    /\ Cache = EmptyCache
    /\ wr = [c \in Writers |-> WriterIdle]
    /\ nexec = 0
    /\ nfail = 0
    /\ ncfg = 0
    /\ ntokens = 1
    /\ limits = [execs |-> MaxExecs, faults |-> MaxFailures, cfgs |-> MaxConfigOps]
    /\ last = NoAttempt
    /\ recall = NoRecall
    /\ stream = NoStream

NextWriter ==
    \/ \E c \in Writers : WriterExecute(c)
    \/ \E c \in Writers : WriterAttempt(c)
    \/ \E a \in Attributions : Attribution(a[1], a[2])
    \/ NewSession
    \/ \E id \in 1..ntokens : SetSession(id)
    \/ EnqueueBurst(queueCap - 1)

SpecWriter == InitWriter /\ [][NextWriter]_vars

----------------------------------------------------------------------------
(* The retry loop on its own: one caller's Execute calls against a backend *)
(* that may fail any repository call of any attempt                        *)

RetryExecs == 2

Caller == CHOOSE c \in Writers : TRUE

\* memori.New(WithStorageConn(conn)) on a supported connection, before or after
\* Attribution("u1", "p1"); the backend may fail every attempt of a call.
InitRetry ==
    /\ conn \in Dialects
    /\ dialect = Start(conn)
    /\ schema = Built(dialect)
    /\ registry = initRegistry
    /\ manager = Started(dialect)
    /\ now = 0
    /\ db = EmptyDB
    /\ memori_counters = [coll \in Collections |-> 0]
    /\ rc = [c \in Clients |-> Idle]
    /\ ncalls = 0
    /\ calls = {}
    /\ queue = <<>>
    /\ started = FALSE
    /\ spawned = 0
    /\ wk = [w \in Workers |-> Receiving]
    /\ nenq = 0
    /\ upserted = <<>>
    /\ Config \in {newConfig, [newConfig EXCEPT !.EntityID = "u1", !.ProcessID = "p1"]}
    /\ Cache = EmptyCache
    /\ wr = [c \in Writers |-> WriterIdle]
    /\ nexec = 0
    /\ nfail = 0
    /\ ncfg = 0
    /\ ntokens = 1
    /\ limits = [execs |-> RetryExecs, faults |-> maxRetries, cfgs |-> 0]
    /\ last = NoAttempt
    /\ recall = NoRecall
    /\ stream = NoStream

NextRetry ==
    \/ WriterExecute(Caller)
    \/ WriterAttempt(Caller)

SpecRetry == InitRetry /\ [][NextRetry]_vars

----------------------------------------------------------------------------
(* Properties of the Writer *)

MessageRows == db["memori_conversation_message"]

\* The rows the most recent executeTransaction appended to the message table.
Written == SubSeq(MessageRows, last.from + 1, last.upto)

IsSystem(msg) == msg.Role = "system"
NotSystem(msg) == msg.Role # "system"

RowFor(conversationID, msg) ==
    [conversation_id |-> conversationID, role |-> msg.Role, type |-> msg.Type,
     content |-> msg.Content]

\* What one attempt is to write: the non-system messages in payload order, then the response.
Expected(payload, conversationID) ==
    LET msgs == SelectSeq(payload.Messages, NotSystem) \o payload.Response
    IN [i \in 1..Len(msgs) |-> RowFor(conversationID, msgs[i])]

AllCached(cache) == \A key \in DOMAIN cache : cache[key] # <<>>

C5_RetriesOnlyTransientWithBackoff ==
    \A c \in Writers :
        (wr[c].pc \in {"run", "done"} /\ wr[c].bound) =>
            LET errs == wr[c].errs
                slept == wr[c].slept
            IN /\ Len(errs) <= 3
               /\ \A i \in 1..(Len(errs) - 1) : errs[i] \in TransientErrors
               /\ wr[c].pc = "run" =>
                    /\ wr[c].attempt = Len(errs)
                    /\ Len(errs) < 3
                    /\ \A i \in 1..Len(errs) : errs[i] \in TransientErrors
                    /\ Len(slept) = Len(errs)
               /\ wr[c].pc = "done" =>
                    /\ Len(errs) >= 1
                    /\ Len(slept) = Len(errs) - 1
                    /\ errs[Len(errs)] \notin TransientErrors => wr[c].result = errs[Len(errs)]
               /\ slept = SubSeq(<<100, 200>>, 1, Len(slept))

\* A call that slept 100 ms after a transient failure and then returned the
\* non-transient error of its second attempt.
C5_Witness ==
    \E c \in Writers :
        /\ wr[c].pc = "done"
        /\ Len(wr[c].errs) = 2
        /\ wr[c].errs[1] \in TransientErrors
        /\ wr[c].errs[2] \in OtherErrors
        /\ wr[c].result = wr[c].errs[2]
        /\ wr[c].slept = <<100>>

\* C6: a call whose three attempts all failed with a transient error returns
\* "max retries exceeded".
C6_ExhaustedRetriesAreReported ==
    \A c \in Writers :
        ( /\ wr[c].pc = "done"
          /\ Len(wr[c].errs) = 3
          /\ \A i \in 1..3 : wr[c].errs[i] \in TransientErrors )
        => wr[c].result = ErrMaxRetries

\* C7: the message table never holds a row of role "system".
C7_NoSystemRoleRow ==
    \A i \in DOMAIN MessageRows : MessageRows[i].role # "system"

\* C8: the rows one attempt appends to the message table are, in order, the rows of the
\* payload's non-system messages and then of the response, all under the resolved
\* conversation id; an attempt without error appends all of them; an attempt whose insert
\* failed appends exactly those before the failing insert, which is its last repository
\* call, and calls Enqueue not at all, leaving the queue as it was.
C8_WritesInOrderAndStopsAtFailure ==
    last.caller # 0 =>
        LET want == Expected(last.payload, last.conv)
            got == Written
            inserts == last.k - last.creates
        IN /\ Len(got) <= Len(want)
           /\ got = SubSeq(want, 1, Len(got))
           /\ last.err = Nil => got = want /\ inserts = Len(want)
           /\ last.err # Nil =>
                /\ last.offers = <<>>
                /\ last.qupto = last.qfrom
                /\ last.conv = NoID => got = <<>>
                /\ last.conv # NoID => Len(got) = inserts - 1 /\ Len(got) < Len(want)

\* An attempt on a payload with a system message that wrote one row and then failed
\* on the next insert.
C8_Witness ==
    /\ last.caller # 0
    /\ last.err # Nil
    /\ last.conv # NoID
    /\ last.upto = last.from + 1
    /\ \E i \in DOMAIN last.payload.Messages : IsSystem(last.payload.Messages[i])

\* The job executeTransaction hands to Enqueue.
JobOf(attempt) ==
    [ConversationID |-> <<attempt.conv>>, EntityID |-> attempt.cfg.EntityID,
     ProcessID |-> attempt.cfg.ProcessID, Messages |-> attempt.payload.Messages]

\* Calls return success after exactly one offer, and an error after none.
OffersPerCall ==
    \A c \in Writers :
        (wr[c].pc = "done" /\ wr[c].bound) =>
            Len(wr[c].offers) = (IF wr[c].result = Nil THEN 1 ELSE 0)

\* The job of a successful attempt carries the conversation id of the rows written, the
\* configured external ids and the payload's message list.
OfferCarriesJob ==
    (last.caller # 0 /\ last.err = Nil) =>
        /\ Len(last.offers) = 1
        /\ last.offers[1].job = JobOf(last)
        /\ \A i \in DOMAIN Written :
               <<Written[i].conversation_id>> = last.offers[1].job.ConversationID

\* C9 as stated: every successful Execute call on bound storage has offered exactly one
\* job, accepted unless the queue is full, carrying the conversation id of the message
\* writes, the configured identity and process external ids and the payload's message
\* list; a call that returns an error has offered none.
C9_SuccessOffersOneJob ==
    /\ OffersPerCall
    /\ OfferCarriesJob
    /\ (last.caller # 0 /\ last.err = Nil) =>
           last.offers[1].accepted = (last.offers[1].qlen < queueCap)

\* C9, amended: ... accepted unless the queue is full or the configured identity
\* external id is empty (Enqueue discards such a job before it reaches the queue); an
\* accepted job is the new last element of the queue, a job not accepted leaves the
\* queue as it was.
C9_SuccessOffersOneJobIfIdentified ==
    /\ OffersPerCall
    /\ OfferCarriesJob
    /\ (last.caller # 0 /\ last.err = Nil) =>
           LET offer == last.offers[1]
           IN /\ offer.accepted = (offer.qlen < queueCap /\ last.cfg.EntityID # "")
              /\ offer.qlen = last.qfrom
              /\ offer.accepted => last.qupto = last.qfrom + 1 /\ queue[last.qupto] = offer.job
              /\ ~offer.accepted => last.qupto = last.qfrom

\* A successful call of an attributed caller whose job met a full queue and was dropped.
C9_Witness ==
    /\ last.caller # 0
    /\ last.err = Nil
    /\ wr[last.caller].pc = "done"
    /\ last.cfg.EntityID # ""
    /\ last.offers[1].qlen = queueCap
    /\ ~last.offers[1].accepted

\* C10: when the manager is unbound (WithStorageConn not used, used with a nil
\* connection, or Start failed on an unsupported one) every Execute call returns nil
\* at once: no repository call, no row in any table, no id drawn, no Enqueue call.
C10_UnboundExecuteIsNoOp ==
    conn \notin Dialects =>
        /\ db = EmptyDB
        /\ \A coll \in Collections : memori_counters[coll] = 0
        /\ last = NoAttempt
        /\ \A c \in Writers :
               /\ wr[c].pc \in {"idle", "done"}
               /\ wr[c].pc = "done" =>
                    wr[c].result = Nil /\ wr[c].calls = 0 /\ wr[c].offers = <<>>

\* Two Execute calls have returned on a Memori whose Start failed.
C10_Witness ==
    /\ conn = "unsupported"
    /\ nexec = 2
    /\ \A c \in Writers : wr[c].pc = "done"

----------------------------------------------------------------------------
(* A burst of Enqueue calls against the running workers *)

\* The workers are followed while the queue is within MaxDrain jobs of its capacity.
MaxDrain == 2

\* Enqueue, up to the select: the identity test and Start().
EnqueueCall(c) ==
    /\ rc[c].pc = "idle"
    /\ ncalls < MaxCalls
    /\ ncalls' = ncalls + 1
    /\ \E input \in JobInputs :
         IF input.EntityID = ""
         THEN /\ calls' = calls \cup {[n |-> ncalls + 1, op |-> "Enqueue", input |-> input,
                                       qlen |-> Len(queue), accepted |-> FALSE]}
              /\ UNCHANGED <<stream, rc, started, spawned>>
         ELSE /\ rc' = [rc EXCEPT ![c] = [pc |-> "select", n |-> ncalls + 1, input |-> input]]
              /\ started' = TRUE
              /\ spawned' = startOnce(started, spawned)
              /\ UNCHANGED calls
    /\ UNCHANGED <<stream, storeVars, writerVars, queue, wk, nenq, upserted>>

\* Enqueue, the select statement: send when the channel has room, else the default case.
EnqueueSelect(c) ==
    /\ rc[c].pc = "select"
    /\ queue' = Offer(queue, rc[c].input)
    /\ calls' = calls \cup {[n |-> rc[c].n, op |-> "Enqueue", input |-> rc[c].input,
                             qlen |-> Len(queue), accepted |-> Len(queue) < queueCap]}
    /\ rc' = [rc EXCEPT ![c] = Idle]
    /\ UNCHANGED <<stream, storeVars, writerVars, ncalls, started, spawned, wk, nenq, upserted>>

BurstReceive(w) ==
    /\ Len(queue) > queueCap - MaxDrain
    /\ WorkerReceive(w)

NextBurst ==
    \/ EnqueueBurst(queueCap)
    \/ \E c \in Clients : EnqueueCall(c)
    \/ \E c \in Clients : EnqueueSelect(c)
    \/ \E w \in Workers : BurstReceive(w)
    \/ \E w \in Workers : WorkerResolve(w)
    \/ \E w \in Workers : WorkerUpsert(w)
    \/ \E w \in Workers : WorkerSummary(w)

SpecBurst == InitAug /\ [][NextBurst]_vars

EnqueueCalls == {k \in calls : k.op = "Enqueue"}

\* The select of a caller leaves a full queue as it is and appends to any other.
SelectStep(c) ==
    (rc[c].pc = "select" /\ rc'[c].pc # "select") =>
        queue' = IF Len(queue) = queueCap THEN queue ELSE Append(queue, rc[c].input)

\* C11: a caller inside Enqueue can always take its next step, whatever the queue
\* holds and whatever the workers do; an Enqueue on a queue of 1000 jobs drops the job
\* and leaves the queue unchanged; the queue never holds more than 1000 jobs, also
\* when more than 1000 jobs are offered by several callers.
C11_EnqueueNeverBlocks ==
    /\ [](Len(queue) <= queueCap)
    /\ [](\A c \in Clients : rc[c].pc = "select" => ENABLED EnqueueSelect(c))
    /\ [](\A k \in EnqueueCalls : k.accepted = (k.qlen < queueCap /\ k.input.EntityID # ""))
    /\ [][\A c \in Clients : SelectStep(c)]_vars

\* More than 1000 jobs were offered, one caller's job met the full queue and was
\* dropped, and another caller is inside Enqueue.
C11_Witness ==
    /\ nenq + ncalls > queueCap
    /\ Len(queue) = queueCap
    /\ \E k \in EnqueueCalls : k.qlen = queueCap /\ ~k.accepted /\ k.input.EntityID # ""
    /\ \E c \in Clients : rc[c].pc = "select"

\* An Enqueue call that carries an identity has reached Start().
StartReached ==
    \/ nenq > 0
    \/ \E c \in Clients : rc[c].pc = "select"
    \/ \E k \in EnqueueCalls : k.input.EntityID # ""

\* C30: no worker goroutine exists before an Enqueue call with a non-empty identity has
\* reached Start(); from that call on there are exactly 8 of them, whatever number of
\* Enqueue calls run at the same time or afterwards, and only then does a worker take a job.
C30_WorkersStartOnceOnFirstUse ==
    /\ spawned = (IF StartReached THEN workers ELSE 0)
    /\ started = StartReached
    /\ (\E w \in Workers : wk[w].pc # "recv") => spawned = workers

\* Two callers are inside Enqueue at the same time, after Start(), and no other Enqueue
\* was made before them.
C30_Witness ==
    /\ nenq = 0
    /\ \A c \in Clients : rc[c].pc = "select"
    /\ spawned = workers

----------------------------------------------------------------------------
(* The Fact repository called directly: Upsert and SearchByEmbedding *)

MaxUpserts == 2
MaxLimit == 2

\* SELECT ... WHERE entity_id = ? LIMIT ? / Find({entity_id}).SetLimit(n): the sets of rows
\* the statement may return (no ORDER BY: any embeddingsLimit rows of the identity).
Fetched(table, entityID, embeddingsLimit) ==
    LET mine == {i \in DOMAIN table : table[i].entity_id = entityID}
        n == IF Cardinality(mine) < embeddingsLimit THEN Cardinality(mine)
             ELSE embeddingsLimit
    IN {S \in SUBSET mine : Cardinality(S) = n}

\* The FactResult built from one fetched row.
FactResult(row, queryEmbedding) ==
    [Content |-> row.content,
     Score |-> cosineSimilarity(queryEmbedding, decodeEmbedding(row.content_embedding)),
     NumTimes |-> row.num_times,
     DateLastTime |-> row.date_last_time]

\* A less function that compares the scores only.
BeforeByScoreOnly(x, y) == ScoreGreater(x.Score, y.Score)

\* The less function given to sort.Slice: score descending, then more recent first.
Before(x, y) ==
    IF x.Score = y.Score THEN x.DateLastTime > y.DateLastTime
    ELSE ScoreGreater(x.Score, y.Score)

Orders(S) == {p \in [1..Cardinality(S) -> S] : \A i, j \in 1..Cardinality(S) : i # j => p[i] # p[j]}

\* sort.Slice(results, less): the results in an order that has no pair out of order
\* (the sort is not stable: results that neither precedes the other come in any order).
Ranked(table, S, queryEmbedding) ==
    {r \in {[i \in DOMAIN p |-> FactResult(table[p[i]], queryEmbedding)] : p \in Orders(S)} :
        \A i, j \in DOMAIN r : i < j => ~Before(r[j], r[i])}

\* EntityFact.SearchByEmbedding: the results the call may return.
SearchByEmbedding(table, entityID, queryEmbedding, limit, embeddingsLimit) ==
    UNION {{CutTo(r, limit) : r \in Ranked(table, S, queryEmbedding)} :
              S \in Fetched(table, entityID, embeddingsLimit)}

Embed(text) == encodeEmbedding(embedText(text))

\* Arguments of the direct Upsert calls: <<identity, content, embedding, fingerprint>>.
UpsertArgs ==
    { <<1, <<"a">>, Embed(<<"a">>), "h1">>,
      <<1, <<"b">>, Embed(<<"b">>), "h2">>,
      <<1, <<"b">>, Embed(<<"b", "a">>), "h1">>,
      <<1, <<"c">>, Embed(<<"a", "b">>), "h3">>,
      <<1, <<"s">>, <<1, 2, 3>>, "h4">>,
      <<2, <<"a">>, Embed(<<"a">>), "h1">> }

Queries == {embedText(<<"a">>), embedText(<<"q", "a">>), embedText(<<>>)}

FactUpsertCalls == {k \in calls : k.op = "Fact.Upsert"}

\* EntityFact.Upsert called on the repository (the facts are stored before the search).
UpsertCall(entityID, content, embedding, uniq) ==
    /\ recall.n = 0
    /\ Cardinality(FactUpsertCalls) < MaxUpserts
    /\ db' = [db EXCEPT !["memori_entity_fact"] =
                 FactUpsert(dialect, @, entityID, content, embedding, uniq, now)]
    /\ upserted' = Bump(upserted, <<entityID, uniq>>)
    /\ calls' = calls \cup {[n |-> Cardinality(FactUpsertCalls) + 1, op |-> "Fact.Upsert",
                             entityID |-> entityID, content |-> content,
                             embedding |-> embedding, uniq |-> uniq, t |-> now]}
    /\ UNCHANGED <<stream, dialect, schema, registry, manager, now, memori_counters, rc, ncalls, writerVars, queue, started, spawned, wk,
                   nenq>>

\* EntityFact.SearchByEmbedding called on the repository, as the last call of a run.
SearchCall(entityID, queryEmbedding, limit, embeddingsLimit) ==
    /\ recall.n = 0
    /\ \E S \in Fetched(db["memori_entity_fact"], entityID, embeddingsLimit) :
         \E r \in Ranked(db["memori_entity_fact"], S, queryEmbedding) :
           recall' = [n |-> 1, op |-> "SearchByEmbedding", entityID |-> entityID,
                      query |-> queryEmbedding, limit |-> limit,
                      embeddingsLimit |-> embeddingsLimit,
                      table |-> db["memori_entity_fact"], fetched |-> S,
                      result |-> CutTo(r, limit), err |-> Nil]
    /\ UNCHANGED <<stream, storeVars, repoVars, augVars, conn, Config, Cache, wr, nexec, nfail, ncfg,
                   ntokens, limits, last>>

NextFacts ==
    \/ \E a \in UpsertArgs : UpsertCall(a[1], a[2], a[3], a[4])
    \/ TickAug
    \/ \E entityID \in {1, 2} : \E q \in Queries : \E limit, scan \in 1..MaxLimit :
           SearchCall(entityID, q, limit, scan)

SpecFacts == InitAug /\ [][NextFacts]_vars

Min(a, b) == IF a < b THEN a ELSE b

\* The fact table as the most recent search found it.
FactTable == recall.table

\* The score of a stored row against a query vector.
ScoreOf(i, queryEmbedding) ==
    cosineSimilarity(queryEmbedding, decodeEmbedding(FactTable[i].content_embedding))

\* Row i ranks strictly above row j: greater similarity, or equal and seen later.
RanksAbove(i, j, queryEmbedding) ==
    \/ ScoreGreater(ScoreOf(i, queryEmbedding), ScoreOf(j, queryEmbedding))
    \/ /\ ScoreOf(i, queryEmbedding) = ScoreOf(j, queryEmbedding)
       /\ FactTable[i].date_last_time > FactTable[j].date_last_time

\* C14: a SearchByEmbedding call fetches n = min(scanLimit, facts of the identity) facts
\* of that identity and returns min(limit, n) of them, never more than limit: each result
\* is one fetched fact with its similarity to q, no result ranks below the one after it
\* (similarity strictly descending, equal similarity later last-seen time first), and no
\* fetched fact left out ranks above a returned one.
C14_SearchRanksAndLimits ==
    (recall.n > 0 /\ recall.op = "SearchByEmbedding") =>
        LET r == recall.result
            S == recall.fetched
            q == recall.query
            mine == {i \in DOMAIN FactTable : FactTable[i].entity_id = recall.entityID}
        IN /\ S \subseteq mine
           /\ Cardinality(S) = Min(recall.embeddingsLimit, Cardinality(mine))
           /\ Len(r) = Min(recall.limit, Cardinality(S))
           /\ Len(r) <= recall.limit
           /\ \E f \in [DOMAIN r -> S] :
                /\ \A i, j \in DOMAIN r : i # j => f[i] # f[j]
                /\ \A i \in DOMAIN r :
                     /\ r[i].Content = FactTable[f[i]].content
                     /\ r[i].NumTimes = FactTable[f[i]].num_times
                     /\ r[i].DateLastTime = FactTable[f[i]].date_last_time
                     /\ r[i].Score = ScoreOf(f[i], q)
                /\ \A i, j \in DOMAIN r : i < j => ~RanksAbove(f[j], f[i], q)
                /\ \A s \in S : (\A i \in DOMAIN r : f[i] # s) =>
                       \A i \in DOMAIN r : ~RanksAbove(s, f[i], q)

\* A search that fetched two facts of equal similarity and different last-seen time
\* and returned one.
C14_Witness ==
    /\ recall.n > 0
    /\ recall.op = "SearchByEmbedding"
    /\ Cardinality(recall.fetched) = 2
    /\ Len(recall.result) = 1
    /\ \E i, j \in recall.fetched :
         /\ i # j
         /\ ScoreOf(i, recall.query) = ScoreOf(j, recall.query)
         /\ ScoreOf(i, recall.query) # ZeroScore
         /\ FactTable[i].date_last_time # FactTable[j].date_last_time

CallsFor(p) == {k \in FactUpsertCalls : k.entityID = p[1] /\ k.uniq = p[2]}

LatestCall(p) == CHOOSE k \in CallsFor(p) : \A k2 \in CallsFor(p) : k2.n <= k.n

\* The fact table a dialect holds after the first n Upsert calls of the history.
RECURSIVE Replay(_, _)
Replay(d, n) ==
    IF n = 0 THEN <<>>
    ELSE LET k == CHOOSE c \in FactUpsertCalls : c.n = n
         IN FactUpsert(d, Replay(d, n - 1), k.entityID, k.content, k.embedding, k.uniq, k.t)

\* C15: after any sequence of Fact.upsert calls the one row of an (identity, fingerprint)
\* pair counts the calls made with the pair and carries the time, the content and the
\* embedding of the latest of them; the relational and the document dialect hold the
\* same rows after the same calls.
C15_UpsertReplacesContent ==
    /\ \A p \in DOMAIN upserted :
          LET rows == FactRows(db["memori_entity_fact"], p[1], p[2])
              k == LatestCall(p)
          IN /\ Cardinality(rows) = 1
             /\ \A i \in rows :
                  LET row == db["memori_entity_fact"][i]
                  IN /\ row.num_times = Cardinality(CallsFor(p))
                     /\ row.date_last_time = k.t
                     /\ row.content = k.content
                     /\ row.content_embedding = k.embedding
    /\ Replay("sqlite", Cardinality(FactUpsertCalls))
           = Replay("mongodb", Cardinality(FactUpsertCalls))

\* The part of the statement the relational dialects keep: count and recency.
C15_CountAndRecencyOnly ==
    \A p \in DOMAIN upserted :
        \A i \in FactRows(db["memori_entity_fact"], p[1], p[2]) :
            /\ db["memori_entity_fact"][i].num_times = Cardinality(CallsFor(p))
            /\ db["memori_entity_fact"][i].date_last_time = LatestCall(p).t

----------------------------------------------------------------------------
(* Recall: one Execute call, the workers and SearchFacts on one Memori *)

MaxSearches == 2

RecallLimit == 5

NoFacts == [result |-> <<>>, err |-> Nil, scanned |-> FALSE]

\* out = append(out, Fact{Content, Score, NumTimes, DateLastTime})
PublicFacts(facts) ==
    [i \in DOMAIN facts |-> [Content |-> facts[i].Content, Score |-> facts[i].Score,
                             NumTimes |-> facts[i].NumTimes,
                             DateLastTime |-> facts[i].DateLastTime]]

\* A SearchFacts that ignores the failed identity lookup and scans with the zero id.
SearchFactsScansAnyway(query, limit) ==
    IF dialect = "" \/ Config.EntityID = "" THEN {NoFacts}
    ELSE LET n == IF limit <= 0 THEN RecallLimit ELSE limit
             got == GetByExternalID(db["memori_entity"], Config.EntityID)
             embLimit == IF n * 10 < n THEN n ELSE n * 10
         IN {[result |-> PublicFacts(facts), err |-> Nil, scanned |-> TRUE] :
                facts \in SearchByEmbedding(db["memori_entity_fact"], got.id,
                                            embedText(query), n, embLimit)}

\* Recall.SearchFacts(query, limit): the answers the call may give, and whether it
\* read the fact table.
SearchFacts(query, limit) ==
    IF dialect = "" THEN {NoFacts}
    ELSE IF Config.EntityID = "" THEN {NoFacts}
    ELSE LET n == IF limit <= 0 THEN RecallLimit ELSE limit
             got == GetByExternalID(db["memori_entity"], Config.EntityID)
             embLimit == IF n * 10 < n THEN n ELSE n * 10
         IN IF got.err # Nil THEN {NoFacts}
            ELSE {[result |-> PublicFacts(facts), err |-> Nil, scanned |-> TRUE] :
                     facts \in SearchByEmbedding(db["memori_entity_fact"], got.id,
                                                 embedText(query), n, embLimit)}

QueryTexts == {<<"a">>, <<"q", "a">>}

\* The identity configured has a row in the entity table.
IdentityKnown == \E i \in DOMAIN db["memori_entity"] :
                     db["memori_entity"][i].external_id = Config.EntityID

\* Memori.Recall(query, limit)
RecallCall(query, limit) ==
    /\ recall.n < MaxSearches
    /\ \E answer \in SearchFacts(query, limit) :
         recall' = [n |-> recall.n + 1, op |-> "SearchFacts", query |-> query,
                    limit |-> limit, result |-> answer.result, err |-> answer.err,
                    scanned |-> answer.scanned, known |-> IdentityKnown]
    /\ UNCHANGED <<stream, storeVars, repoVars, augVars, conn, Config, Cache, wr, nexec, nfail, ncfg,
                   ntokens, limits, last>>

\* memori.New with or without storage, Storage.Build() on an empty database, then
\* Attribution("u1", "p1") or none; one Execute call, no backend failure.
InitRecall ==
    /\ conn \in Conns
    /\ dialect = Start(conn)
    /\ schema = Built(dialect)
    /\ registry = initRegistry
    /\ manager = Started(dialect)
    /\ now = 0
    /\ db = EmptyDB
    /\ memori_counters = [coll \in Collections |-> 0]
    /\ rc = [c \in Clients |-> Idle]
    /\ ncalls = 0
    /\ calls = {}
    /\ queue = <<>>
    /\ started = FALSE
    /\ spawned = 0
    /\ wk = [w \in Workers |-> Receiving]
    /\ nenq = 0
    /\ upserted = <<>>
    /\ Config \in {newConfig, [newConfig EXCEPT !.EntityID = "u1", !.ProcessID = "p1"]}
    /\ Cache = EmptyCache
    /\ wr = [c \in Writers |-> WriterIdle]
    /\ nexec = 0
    /\ nfail = 0
    /\ ncfg = 0
    /\ ntokens = 1
    /\ limits = [execs |-> 1, faults |-> 0, cfgs |-> 0]
    /\ last = NoAttempt
    /\ recall = NoRecall
    /\ stream = NoStream

NextRecall ==
    \/ WriterExecute(Caller)
    \/ WriterAttempt(Caller)
    \/ \E w \in Workers : WorkerReceive(w)
    \/ \E w \in Workers : WorkerResolve(w)
    \/ \E w \in Workers : WorkerUpsert(w)
    \/ \E w \in Workers : WorkerSummary(w)
    \/ \E query \in QueryTexts : \E limit \in {0, 1, 5} : RecallCall(query, limit)

\* Execute runs on its caller's goroutine and every started worker is scheduled.
FairRecall ==
    /\ WF_vars(WriterAttempt(Caller))
    /\ \A w \in Workers :
         /\ WF_vars(WorkerReceive(w))
         /\ WF_vars(WorkerResolve(w))
         /\ WF_vars(WorkerUpsert(w))
         /\ WF_vars(WorkerSummary(w))

SpecRecall == InitRecall /\ [][NextRecall]_vars /\ FairRecall

\* The payload of the scenario: one user message and an assistant response.
IsSingleUserMessage(payload) ==
    /\ Len(payload.Messages) = 1
    /\ payload.Messages[1].Role = "user"
    /\ Len(payload.Response) = 1
    /\ payload.Response[1].Role = "assistant"

\* Execute has returned success for such a payload, written for an attributed identity.
WroteSingleMessage ==
    /\ dialect # ""
    /\ Config.EntityID # ""
    /\ wr[Caller].pc = "done"
    /\ wr[Caller].result = Nil
    /\ IsSingleUserMessage(wr[Caller].payload)

\* The facts of the configured identity are exactly one: content m, occurrence count 1.
OneFactOf(m) ==
    \E e \in DOMAIN db["memori_entity"] :
        /\ db["memori_entity"][e].external_id = Config.EntityID
        /\ LET mine == {i \in DOMAIN db["memori_entity_fact"] :
                           db["memori_entity_fact"][i].entity_id = db["memori_entity"][e].id}
           IN /\ Cardinality(mine) = 1
              /\ \A i \in mine : /\ db["memori_entity_fact"][i].content = m
                                 /\ db["memori_entity_fact"][i].num_times = 1

TheMessage == wr[Caller].payload.Messages[1].Content

FactStored == WroteSingleMessage /\ OneFactOf(TheMessage)

\* C12: on a migrated store with a fresh identity, once Execute has returned for a payload
\* of one user message m and an assistant response, the workers being scheduled fairly,
\* the identity eventually has exactly one fact, of content m and occurrence count 1,
\* and keeps it; every SearchFacts call made from then on returns without error a
\* non-empty list whose first entry is that fact.
C12_WriteAugmentRecall ==
    /\ WroteSingleMessage ~> []FactStored
    /\ [][(FactStored /\ recall'.n = recall.n + 1) =>
             /\ recall'.err = Nil
             /\ Len(recall'.result) >= 1
             /\ recall'.result[1].Content = TheMessage
             /\ recall'.result[1].NumTimes = 1]_vars

\* The fact is stored and a search made after a first, empty one has returned it.
C12_Witness ==
    /\ FactStored
    /\ recall.n = 2
    /\ recall.scanned
    /\ Len(recall.result) = 1
    /\ recall.result[1].Content = TheMessage

\* C13: SearchFacts returns an empty list and no error, without reading the fact table,
\* whenever no storage is bound, no identity is attributed, or the attributed external
\* id has no row in the entity table yet.
C13_RecallWithoutIdentityIsEmpty ==
    (recall.n > 0 /\ (dialect = "" \/ Config.EntityID = "" \/ ~recall.known)) =>
        /\ recall.result = <<>>
        /\ recall.err = Nil
        /\ ~recall.scanned

\* A search by an attributed caller on bound storage made before the first Execute
\* stored the identity; the identity has been stored since.
C13_Witness ==
    /\ recall.n > 0
    /\ dialect # ""
    /\ Config.EntityID # ""
    /\ ~recall.known
    /\ IdentityKnown

----------------------------------------------------------------------------
(* executeTransaction statement by statement: the locks two callers take *)

Keys == <<"entity_id", "process_id", "session_id", "conversation_id">>

\* Positions inside executeTransaction: "look" is ensureCachedID up to the cache read,
\* "create" a repository create call in flight, "insert" and "response" a message
\* insert in flight, "enqueue" the statements after the last insert.
TxPcs == {"look", "create", "insert", "response", "enqueue"}

InTx(c) == wr[c].pc \in TxPcs

\* The caller holds cfg.mu / cache.mu.
HoldsCfg(c) == InTx(c) /\ wr[c].cfgmu
HoldsCache(c) == InTx(c) /\ wr[c].cachemu

\* The caller waits for the answer of a repository call.
InIO(c) == wr[c].pc \in {"create", "insert", "response"}

Merge(r, s) == [f \in DOMAIN r \cup DOMAIN s |-> IF f \in DOMAIN s THEN s[f] ELSE r[f]]

\* The first non-system message at or after position i, 0 when there is none.
NextMsg(msgs, i) ==
    LET rest == {j \in i..Len(msgs) : msgs[j].Role # "system"}
    IN IF rest = {} THEN 0 ELSE FirstIndex(rest)

\* Where the caller goes after the message at position i - 1: the next insert, the
\* response, or the end.
AfterMsg(state, i) ==
    IF NextMsg(state.payload.Messages, i) # 0
    THEN [state EXCEPT !.pc = "insert", !.i = NextMsg(state.payload.Messages, i)]
    ELSE IF state.payload.Response # <<>> THEN [state EXCEPT !.pc = "response"]
    ELSE [state EXCEPT !.pc = "enqueue"]

\* Where the caller goes after the key at position step - 1 of Keys.
AfterKey(state, step) ==
    IF step > Len(Keys) THEN AfterMsg(state, 1) ELSE [state EXCEPT !.pc = "look", !.step = step]

\* return err, with the deferred cfg.mu.Unlock()
TxReturn(state, err) ==
    [pc |-> "done", n |-> state.n, payload |-> state.payload, attempt |-> state.attempt,
     errs |-> Append(state.errs, err), slept |-> state.slept, offers |-> state.offers,
     calls |-> state.calls, bound |-> state.bound, result |-> err]

\* cfg := w.m.Config; cfg.mu.Lock()
TxLock(c) ==
    /\ wr[c].pc = "run"
    /\ \A other \in Writers : ~HoldsCfg(other)
    /\ wr' = [wr EXCEPT ![c] =
                 Merge(@, [pc |-> "look", step |-> 1, i |-> 0, cfgmu |-> TRUE,
                           cachemu |-> FALSE,
                           ids |-> [key \in {Keys[k] : k \in DOMAIN Keys} |-> <<>>]])]
    /\ UNCHANGED <<stream, storeVars, repoVars, augVars, conn, Config, Cache, nexec, nfail, ncfg,
                   ntokens, limits, last, recall>>

\* The key is resolved at all: entity and process only when their external id is set.
Wanted(key) ==
    CASE key = "entity_id" -> Config.EntityID # ""
      [] key = "process_id" -> Config.ProcessID # ""
      [] OTHER -> TRUE

\* ensureCachedID: cache.mu.Lock(), read the cached pointer; return it, or call createFunc.
TxLook(c) ==
    /\ wr[c].pc = "look"
    /\ LET key == Keys[wr[c].step]
       IN IF ~Wanted(key)
          THEN wr' = [wr EXCEPT ![c] = AfterKey(@, wr[c].step + 1)]
          ELSE /\ \A other \in Writers : ~HoldsCache(other)
               /\ IF CachedID(Cache, key) # <<>>
                  THEN wr' = [wr EXCEPT ![c] =
                                 AfterKey([@ EXCEPT !.ids[key] = CachedID(Cache, key)],
                                          wr[c].step + 1)]
                  ELSE wr' = [wr EXCEPT ![c] = [@ EXCEPT !.pc = "create", !.cachemu = TRUE]]
    /\ UNCHANGED <<stream, storeVars, repoVars, augVars, conn, Config, Cache, nexec, nfail, ncfg,
                   ntokens, limits, last, recall>>

\* The create call of a key, run to completion on the store.
CreateFor(key, ids) ==
    CASE key = "entity_id" ->
           CreateByExternalID(dialect, "memori_entity", db, memori_counters, Config.EntityID)
      [] key = "process_id" ->
           CreateByExternalID(dialect, "memori_process", db, memori_counters, Config.ProcessID)
      [] key = "session_id" ->
           SessionCreate(dialect, db, memori_counters, ids["entity_id"], ids["process_id"],
                         Config.SessionID)
      [] key = "conversation_id" ->
           ConversationCreate(dialect, db, memori_counters, ids["session_id"][1],
                              Config.SessionTTL, now)

\* ensureCachedID: createFunc() returns; the cache is updated, cache.mu released.
TxCreate(c) ==
    /\ wr[c].pc = "create"
    /\ LET key == Keys[wr[c].step]
       IN \E out \in {CreateFor(key, wr[c].ids)} :
            /\ db' = out.db
            /\ memori_counters' = out.ctr
            /\ IF out.err # Nil
               THEN /\ wr' = [wr EXCEPT ![c] = TxReturn(@, out.err)]
                    /\ UNCHANGED Cache
               ELSE /\ Cache' = [Cache EXCEPT ![key] = <<out.id>>]
                    /\ wr' = [wr EXCEPT ![c] =
                                 AfterKey([@ EXCEPT !.ids[key] = <<out.id>>,
                                                    !.cachemu = FALSE, !.calls = @ + 1],
                                          wr[c].step + 1)]
    /\ UNCHANGED <<stream, dialect, schema, registry, manager, now, repoVars, augVars, conn, Config, nexec, nfail, ncfg, ntokens,
                   limits, last, recall>>

\* msgRepo.Create of the message at position i returns.
TxInsert(c) ==
    /\ wr[c].pc = "insert"
    /\ \E out \in {MessageCreate(dialect, db, memori_counters, wr[c].ids["conversation_id"][1],
                                 wr[c].payload.Messages[wr[c].i])} :
         /\ db' = out.db
         /\ wr' = [wr EXCEPT ![c] =
                      IF out.err # Nil THEN TxReturn(@, out.err)
                      ELSE AfterMsg([@ EXCEPT !.calls = @ + 1], wr[c].i + 1)]
    /\ UNCHANGED <<stream, dialect, schema, registry, manager, now, memori_counters, repoVars, augVars, conn, Config, Cache, nexec,
                   nfail, ncfg, ntokens, limits, last, recall>>

\* msgRepo.Create of the response returns.
TxResponse(c) ==
    /\ wr[c].pc = "response"
    /\ \E out \in {MessageCreate(dialect, db, memori_counters, wr[c].ids["conversation_id"][1],
                                 wr[c].payload.Response[1])} :
         /\ db' = out.db
         /\ wr' = [wr EXCEPT ![c] =
                      IF out.err # Nil THEN TxReturn(@, out.err)
                      ELSE [@ EXCEPT !.pc = "enqueue", !.calls = @ + 1]]
    /\ UNCHANGED <<stream, dialect, schema, registry, manager, now, memori_counters, repoVars, augVars, conn, Config, Cache, nexec,
                   nfail, ncfg, ntokens, limits, last, recall>>

\* Augmentation.Enqueue, return nil, the deferred cfg.mu.Unlock().
TxEnqueue(c) ==
    /\ wr[c].pc = "enqueue"
    /\ LET input == [ConversationID |-> wr[c].ids["conversation_id"],
                     EntityID |-> Config.EntityID, ProcessID |-> Config.ProcessID,
                     Messages |-> wr[c].payload.Messages]
       IN /\ IF input.EntityID = ""
             THEN UNCHANGED <<stream, queue, started, spawned>>
             ELSE /\ started' = TRUE
                  /\ spawned' = startOnce(started, spawned)
                  /\ queue' = Offer(queue, input)
          /\ wr' = [wr EXCEPT ![c] =
                       [TxReturn(@, Nil) EXCEPT
                           !.offers = Append(@, [job |-> input, qlen |-> Len(queue),
                                                 accepted |-> input.EntityID # ""
                                                              /\ Len(queue) < queueCap])]]
    /\ UNCHANGED <<stream, storeVars, repoVars, wk, nenq, upserted, conn, Config, Cache, nexec, nfail,
                   ncfg, ntokens, limits, last, recall>>

\* memori.New(WithStorageConn(conn)), before or after Attribution("u1", "p1"); the
\* callers share the one Memori and its Config.
InitLock ==
    /\ conn \in Dialects
    /\ dialect = Start(conn)
    /\ schema = Built(dialect)
    /\ registry = initRegistry
    /\ manager = Started(dialect)
    /\ now = 0
    /\ db = EmptyDB
    /\ memori_counters = [coll \in Collections |-> 0]
    /\ rc = [c \in Clients |-> Idle]
    /\ ncalls = 0
    /\ calls = {}
    /\ queue = <<>>
    /\ started = FALSE
    /\ spawned = 0
    /\ wk = [w \in Workers |-> Receiving]
    /\ nenq = 0
    /\ upserted = <<>>
    /\ Config \in {newConfig, [newConfig EXCEPT !.EntityID = "u1", !.ProcessID = "p1"]}
    /\ Cache = EmptyCache
    /\ wr = [c \in Writers |-> WriterIdle]
    /\ nexec = 0
    /\ nfail = 0
    /\ ncfg = 0
    /\ ntokens = 1
    /\ limits = [execs |-> MaxExecs, faults |-> 0, cfgs |-> 0]
    /\ last = NoAttempt
    /\ recall = NoRecall
    /\ stream = NoStream

NextLock ==
    \/ \E c \in Writers : WriterExecute(c)
    \/ \E c \in Writers : TxLock(c)
    \/ \E c \in Writers : TxLook(c)
    \/ \E c \in Writers : TxCreate(c)
    \/ \E c \in Writers : TxInsert(c)
    \/ \E c \in Writers : TxResponse(c)
    \/ \E c \in Writers : TxEnqueue(c)

SpecLock == InitLock /\ [][NextLock]_vars

\* C17: a caller of Execute holds a lock of the configuration only while it reads or
\* updates the id cache: while one of its repository create calls or message inserts is
\* in flight it holds neither cfg.mu nor cache.mu, so that another caller's backend I/O
\* can run at the same time.
C17_LocksOnlyAroundCache ==
    \A c \in Writers : InIO(c) => (~HoldsCfg(c) /\ ~HoldsCache(c))

\* What the code does instead: the calls exclude each other from the first statement of
\* executeTransaction to its return, and no two are in backend I/O at once.
C17_WholeTransactionIsExclusive ==
    \A c1, c2 \in Writers :
        (c1 # c2 /\ InTx(c1)) => (~InTx(c2) /\ ~InIO(c2))

----------------------------------------------------------------------------
(* Execute and the workers against a backend that fails repository calls *)

\* memori.New(WithStorageConn(conn)), Attribution("u1", "p1"); the backend may fail
\* calls of the Writer and of the workers.
InitFaulty ==
    /\ conn \in Dialects
    /\ dialect = Start(conn)
    /\ schema = Built(dialect)
    /\ registry = initRegistry
    /\ manager = Started(dialect)
    /\ now = 0
    /\ db = EmptyDB
    /\ memori_counters = [coll \in Collections |-> 0]
    /\ rc = [c \in Clients |-> Idle]
    /\ ncalls = 0
    /\ calls = {}
    /\ queue = <<>>
    /\ started = FALSE
    /\ spawned = 0
    /\ wk = [w \in Workers |-> Receiving]
    /\ nenq = 0
    /\ upserted = <<>>
    /\ Config = [newConfig EXCEPT !.EntityID = "u1", !.ProcessID = "p1"]
    /\ Cache = EmptyCache
    /\ wr = [c \in Writers |-> WriterIdle]
    /\ nexec = 0
    /\ nfail = 0
    /\ ncfg = 0
    /\ ntokens = 1
    /\ limits = [execs |-> MaxExecs, faults |-> MaxFailures, cfgs |-> 0]
    /\ last = NoAttempt
    /\ recall = NoRecall
    /\ stream = NoStream

NextFaulty ==
    \/ WriterExecute(Caller)
    \/ WriterAttempt(Caller)
    \/ \E w \in Workers : WorkerReceive(w)
    \/ \E w \in Workers : WorkerResolve(w)
    \/ \E w \in Workers : WorkerUpsert(w)
    \/ \E w \in Workers : WorkerSummary(w)

SpecFaulty == InitFaulty /\ [][NextFaulty]_vars

\* The step is one by worker w.
StepOf(w) == wk'[w] # wk[w]

\* Where processInput stands after the Upsert of the first of `facts`.
AfterThisFact(w) ==
    IF Len(wk[w].facts) > 1
    THEN wk'[w].pc = "upsert" /\ wk'[w].facts = Tail(wk[w].facts) /\ wk'[w].job = wk[w].job
    ELSE IF wk[w].job.ConversationID # NilConv
         THEN wk'[w].pc = "summary" /\ wk'[w].job = wk[w].job
         ELSE wk'[w].pc = "recv"

\* C18: whether a worker's Upsert or UpdateSummary call fails or not, the worker goes on
\* with the remaining facts of the job, then with the summary update when the job has a
\* conversation id, then waits for the next job; no step of a worker changes what an
\* Execute call has returned or will return.
C18_WorkerErrorsAreSwallowed ==
    [][\A w \in Workers :
          /\ (wk[w].pc = "upsert" /\ StepOf(w)) => (AfterThisFact(w) /\ wr' = wr)
          /\ (wk[w].pc = "summary" /\ StepOf(w)) => (wk'[w].pc = "recv" /\ wr' = wr)]_vars

\* The first Upsert of a job of two facts failed; the second fact is stored, the worker
\* is about to update the summary, and the Execute call that enqueued the job has
\* returned success.
C18_Witness ==
    \E w \in Workers :
        /\ wk[w].pc = "summary"
        /\ Len(wk[w].errs) = 1
        /\ Len(CandidateFacts(wk[w].job.Messages)) = 2
        /\ Len(db["memori_entity_fact"]) = 1
        /\ db["memori_entity_fact"][1].content = CandidateFacts(wk[w].job.Messages)[2]
        /\ wr[Caller].pc = "done"
        /\ wr[Caller].result = Nil

----------------------------------------------------------------------------
(* Storage.Build on a fresh backend, with failing statements *)

\* The errors a statement of a migration may fail with.
MigrateErrors == {ErrDuplicateKey, <<"database", "is", "locked">>}

\* The migration tables of a run: the one of the dialect, and the same with a version 2.
Tables(d) == {migrations(d), WithVersion2(migrations(d))}

\* m.Storage.Build(): the whole call; statement failAt of it fails with err.
Build(failAt, err) ==
    /\ ncalls < MaxCalls
    /\ ncalls' = ncalls + 1
    /\ LET r == ManagerBuild(dialect, schema, failAt, err)
       IN /\ schema' = r.schema
          /\ calls' = calls \cup {[n |-> ncalls + 1, op |-> "Build", dialect |-> dialect,
                                   before |-> schema,
                                   failAt |-> failAt, cause |-> err, applied |-> r.applied,
                                   after |-> r.schema, err |-> r.err]}
    /\ UNCHANGED <<stream, dialect, registry, manager, now, db, memori_counters, rc, augVars, writerVars>>

\* memori.New(WithStorageConn(conn)) on a backend no Build has run on.
InitMigrate ==
    /\ conn \in Conns
    /\ dialect = Start(conn)
    /\ schema \in {Fresh(t) : t \in Tables(dialect)}
    /\ registry = initRegistry
    /\ manager = Started(dialect)
    /\ now = 0
    /\ db = EmptyDB
    /\ memori_counters = [coll \in Collections |-> 0]
    /\ rc = [c \in Clients |-> Idle]
    /\ ncalls = 0
    /\ calls = {}
    /\ queue = <<>>
    /\ started = FALSE
    /\ spawned = 0
    /\ wk = [w \in Workers |-> Receiving]
    /\ nenq = 0
    /\ upserted = <<>>
    /\ Config = newConfig
    /\ Cache = EmptyCache
    /\ wr = [c \in Writers |-> WriterIdle]
    /\ nexec = 0
    /\ nfail = 0
    /\ ncfg = 0
    /\ ntokens = 1
    /\ limits = NoLimits
    /\ last = NoAttempt
    /\ recall = NoRecall
    /\ stream = NoStream

\* The statements a Build may fail at: none (0), one of the longest plan, the commit.
FailPoints == 0..(Len(WithVersion2(mongoVersions)[1]) + Len(WithVersion2(mongoVersions)[2]) + 3)

NextMigrate == \E failAt \in FailPoints, err \in MigrateErrors : Build(failAt, err)

SpecMigrate == InitMigrate /\ [][NextMigrate]_vars

BuildCalls == {k \in calls : k.op = "Build"}

\* The statements a Build call had to run.
PlanOf(k) == Plan(k.before.table, getSchemaVersion(k.before), getSchemaVersion(k.before) + 1)

\* A statement or the commit of the call failed.
Failed(k) ==
    /\ dialect # ""
    /\ getSchemaVersion(k.before) < maxVersion
    /\ k.failAt \in 1..(Len(PlanOf(k)) + IF dialect \in SQLDialects THEN 1 ELSE 0)

\* The versions of the table of a backend that are greater than its stored version.
Unapplied(s) == {v \in DOMAIN s.table : v > getSchemaVersion(s)}

Highest(S) == CHOOSE v \in S : \A u \in S : u <= v

Ascending(applied) ==
    \A i, j \in DOMAIN applied : i < j => applied[i].v <= applied[j].v

\* The operations of version v are among the statements carried out, in the table's order.
AppliedVersion(k, v) ==
    LET ops == k.before.table[v]
        done == SelectSeq(k.applied, LAMBDA st : st.kind = "op" /\ st.v = v)
    IN /\ [i \in DOMAIN done |-> done[i].op] = ops
       /\ \A i \in DOMAIN ops : ops[i] \in k.after.objects

\* C19: a Build on a bound backend of which no statement fails has applied, in ascending
\* version order, the operations of every version of the migration table greater than
\* the stored version, and leaves the stored version at the highest of them; this holds
\* for a table that has a version 2 entry as for the one of today.
C19_MigrateAppliesEveryVersion ==
    \A k \in BuildCalls :
        (dialect # "" /\ ~Failed(k)) =>
            /\ \A v \in Unapplied(k.before) : AppliedVersion(k, v)
            /\ Ascending(k.applied)
            /\ Unapplied(k.before) # {} =>
                   getSchemaVersion(k.after) = Highest(Unapplied(k.before))

\* The same for the versions up to maxVersion, the only ones the apply loop visits.
C19_UpToMaxVersion ==
    \A k \in BuildCalls :
        (dialect # "" /\ ~Failed(k)) =>
            LET todo == {v \in Unapplied(k.before) : v <= maxVersion}
            IN /\ \A v \in todo : AppliedVersion(k, v)
               /\ Ascending(k.applied)
               /\ todo # {} => getSchemaVersion(k.after) = Highest(todo)
               /\ \A v \in Unapplied(k.before) \ todo :
                      \A i \in DOMAIN k.before.table[v] :
                          k.before.table[v][i] \notin k.after.objects

\* C20: on a relational backend, a Build of which a schema operation, the version
\* update or the commit fails returns the error, and the schema objects and the stored
\* version are those of before the call.
C20_FailedMigrationCommitsNothing ==
    \A k \in BuildCalls :
        (dialect \in SQLDialects /\ Failed(k)) =>
            /\ k.err # Nil
            /\ SubSeq(k.err, Len(k.err) - Len(k.cause) + 1, Len(k.err)) = k.cause
            /\ k.after.objects = k.before.objects
            /\ k.after.version = k.before.version

\* On a relational backend the version update of a Build failed after every schema
\* operation of version 1 had run, and a later Build went through.
C20_Witness ==
    /\ dialect \in SQLDialects
    /\ \E k, l \in BuildCalls :
          /\ k.n < l.n
          /\ k.before.objects = {}
          /\ k.failAt = Len(PlanOf(k))
          /\ k.err = k.cause
          /\ l.before = k.before
          /\ l.err = Nil
          /\ getSchemaVersion(l.after) = 1

----------------------------------------------------------------------------
(* The Session repository called directly *)

\* The links a caller may pass: nil or the internal id of an Identity / Process.
Links == {<<>>, <<1>>, <<2>>}
Tokens == {1, 2}

\* repos.Session().Create(entityID, processID, sessionUUID): the whole call.
SessionCreateCall(entityID, processID, sessionUUID) ==
    /\ ncalls < MaxCalls
    /\ ncalls' = ncalls + 1
    /\ \E out \in {SessionCreate(dialect, db, memori_counters, entityID, processID,
                                 sessionUUID)} :
         /\ db' = out.db
         /\ memori_counters' = out.ctr
         /\ calls' = calls \cup {[n |-> ncalls + 1, op |-> "Session.Create",
                                  entityID |-> entityID, processID |-> processID,
                                  sessionUUID |-> sessionUUID,
                                  before |-> db["memori_session"],
                                  after |-> out.db["memori_session"],
                                  id |-> out.id, err |-> out.err]}
    /\ UNCHANGED <<stream, dialect, schema, registry, manager, now, rc, augVars, writerVars>>

NextSession ==
    \E entityID \in Links, processID \in Links, sessionUUID \in Tokens :
        SessionCreateCall(entityID, processID, sessionUUID)

SpecSession == InitRepo /\ [][NextSession]_vars

SessionCalls == {k \in calls : k.op = "Session.Create"}

\* The stored sessions of a token.
Stored(table, sessionUUID) == {i \in DOMAIN table : table[i].uuid = sessionUUID}

\* C21: a Session.Create whose token is stored returns the id of the stored session
\* without error and leaves the session table as it was, row for row, whatever identity
\* and process links the call passes.
C21_StoredSessionIsReturnedUnchanged ==
    \A k \in SessionCalls :
        Stored(k.before, k.sessionUUID) # {} =>
            /\ k.err = Nil
            /\ \E i \in Stored(k.before, k.sessionUUID) : k.id = k.before[i].id
            /\ k.after = k.before

\* A Session.Create with a stored token passed links other than the stored ones.
C21_Witness ==
    \E k \in SessionCalls :
        \E i \in Stored(k.before, k.sessionUUID) :
            /\ k.before[i].entity_id # k.entityID
            /\ k.before[i].process_id # k.processID
            /\ k.before[i].entity_id # <<>>
            /\ k.id = k.before[i].id

----------------------------------------------------------------------------
(* The vector functions called directly *)

MaxLen == 2

\* Bit patterns of float32 components, as int32: zero, the smallest subnormals, 1.0, -1.0,
\* a NaN, the largest and (nearly) the smallest pattern, and patterns one byte wide.
BitPatterns == {0, 1, -1, 255, 256, 1065353216, -1082130432, 2143289344, 2147483647,
                -2147483647}

RECURSIVE SeqsUpTo(_, _)
SeqsUpTo(S, n) ==
    IF n = 0 THEN {<<>>}
    ELSE LET shorter == SeqsUpTo(S, n - 1)
         IN shorter \cup {Append(s, x) : s \in {t \in shorter : Len(t) = n - 1}, x \in S}

Vectors == SeqsUpTo(BitPatterns, MaxLen)

\* Byte sequences of the lengths 0 to 5: a multiple of 4 and what lies around it.
ByteSeqs == SeqsUpTo({0, 128, 255}, 5)

\* Vectors of whole-numbered components, for the similarity functions.
Floats == SeqsUpTo({-2, 0, 1, 3}, MaxLen) \cup {<<0, 0, 0>>, <<1, 2, 2>>}

\* Stored embeddings: the encodings of those vectors, and byte sequences that hold
\* no vector.
Embeddings == {encodeEmbedding(v) : v \in Floats}
                  \cup {b \in ByteSeqs : Len(b) % 4 # 0}

\* Texts: short ones, and texts longer than the vector.
Texts == SeqsUpTo({"a", "b", " "}, MaxLen)
             \cup {[i \in 1..(dim + 1) |-> "c"], [i \in 1..(dim + 2) |-> "a"]}

\* Each behaviour makes one call: encodeEmbedding(v), then decodeEmbedding of the bytes.
EncodeCall(v) ==
    /\ recall.n = 0
    /\ recall' = [n |-> recall.n + 1, op |-> "encodeEmbedding", v |-> v,
                  bytes |-> encodeEmbedding(v),
                  back |-> decodeEmbedding(encodeEmbedding(v))]
    /\ UNCHANGED <<stream, storeVars, repoVars, augVars, conn, Config, Cache, wr, nexec, nfail, ncfg,
                   ntokens, limits, last>>

\* decodeEmbedding(b)
DecodeCall(b) ==
    /\ recall.n = 0
    /\ recall' = [n |-> recall.n + 1, op |-> "decodeEmbedding", bytes |-> b,
                  v |-> decodeEmbedding(b)]
    /\ UNCHANGED <<stream, storeVars, repoVars, augVars, conn, Config, Cache, wr, nexec, nfail, ncfg,
                   ntokens, limits, last>>

\* SearchByEmbedding over a table that holds one fact, stored with the embedding b.
SearchStoredCall(b, queryEmbedding) ==
    /\ recall.n = 0
    /\ LET table == FactUpsert(dialect, <<>>, 1, <<"s">>, b, "h4", now)
       IN \E r \in SearchByEmbedding(table, 1, queryEmbedding, 1, 1) :
            recall' = [n |-> recall.n + 1, op |-> "SearchByEmbedding", bytes |-> b,
                       query |-> queryEmbedding, table |-> table, result |-> r,
                       err |-> Nil]
    /\ UNCHANGED <<stream, storeVars, repoVars, augVars, conn, Config, Cache, wr, nexec, nfail, ncfg,
                   ntokens, limits, last>>

\* cosineSimilarity(a, b) of the repositories and memori.CosineSimilarity(a, b).
CosineCall(a, b) ==
    /\ recall.n = 0
    /\ recall' = [n |-> recall.n + 1, op |-> "cosineSimilarity", a |-> a, b |-> b,
                  score |-> cosineSimilarity(a, b), public |-> CosineSimilarity(a, b)]
    /\ UNCHANGED <<stream, storeVars, repoVars, augVars, conn, Config, Cache, wr, nexec, nfail, ncfg,
                   ntokens, limits, last>>

\* embedText(text)
EmbedCall(text) ==
    /\ recall.n = 0
    /\ recall' = [n |-> recall.n + 1, op |-> "embedText", text |-> text,
                  v |-> embedText(text)]
    /\ UNCHANGED <<stream, storeVars, repoVars, augVars, conn, Config, Cache, wr, nexec, nfail, ncfg,
                   ntokens, limits, last>>

NextVectors ==
    \/ \E v \in Vectors : EncodeCall(v)
    \/ \E b \in ByteSeqs : DecodeCall(b)
    \/ \E b \in Embeddings, q \in Floats : SearchStoredCall(b, q)
    \/ \E a, b \in Floats : CosineCall(a, b)
    \/ \E text \in Texts : EmbedCall(text)

SpecVectors == InitAug /\ [][NextVectors]_vars

\* The int32 whose two's complement the four bytes from b[k] on hold, lowest byte first.
LittleEndian(b, k) ==
    LET low == b[k] + 256 * b[k + 1] + 65536 * b[k + 2] + 16777216 * (b[k + 3] % 128)
    IN IF b[k + 3] >= 128 THEN low - 2147483647 - 1 ELSE low

\* C22: the encoding of a non-empty vector has 4 bytes per component and nothing else,
\* the bytes of component i being its bit pattern lowest byte first, and decoding the
\* encoding gives a vector of the same length with the same bit pattern in every
\* component.
C22_EncodingRoundTrips ==
    (recall.n > 0 /\ recall.op = "encodeEmbedding" /\ Len(recall.v) > 0) =>
        /\ Len(recall.bytes) = 4 * Len(recall.v)
        /\ \A i \in DOMAIN recall.bytes : recall.bytes[i] \in 0..255
        /\ \A i \in DOMAIN recall.v : LittleEndian(recall.bytes, 4 * i - 3) = recall.v[i]
        /\ Len(recall.back) = Len(recall.v)
        /\ \A i \in DOMAIN recall.v : recall.back[i] = recall.v[i]

\* A vector of a NaN pattern and a pattern with the sign bit set was encoded and decoded.
C22_Witness ==
    /\ recall.n > 0
    /\ recall.op = "encodeEmbedding"
    /\ recall.v = <<2143289344, -1082130432>>
    /\ Len(recall.bytes) = 8

\* The bytes hold no vector.
NoVector(b) == Len(b) = 0 \/ Len(b) % 4 # 0

\* C23: the empty vector encodes to no bytes; a byte sequence of length zero or of a
\* length that is no multiple of 4 decodes to no vector; a search over a fact stored with
\* such bytes returns the fact with similarity 0 and no error.
C23_MalformedEmbeddingScoresZero ==
    /\ (recall.n > 0 /\ recall.op = "encodeEmbedding" /\ recall.v = <<>>) =>
           Len(recall.bytes) = 0
    /\ (recall.n > 0 /\ recall.op = "decodeEmbedding" /\ NoVector(recall.bytes)) =>
           recall.v = <<>>
    /\ (recall.n > 0 /\ recall.op = "SearchByEmbedding" /\ NoVector(recall.bytes)) =>
           /\ recall.err = Nil
           /\ Len(recall.result) = 1
           /\ recall.result[1].Content = recall.table[1].content
           /\ recall.result[1].Score = ZeroScore

\* A search with a non-zero query over a fact stored with five bytes returned the fact.
C23_Witness ==
    /\ recall.n > 0
    /\ recall.op = "SearchByEmbedding"
    /\ Len(recall.bytes) = 5
    /\ recall.query = <<1, 3>>
    /\ Len(recall.result) = 1

One == [num |-> 1, den |-> 1]

NonZero(v) == \E i \in DOMAIN v : v[i] # 0

\* C24: the similarity of a non-zero vector with itself is 1, for the similarity that
\* ranks the facts and for memori.CosineSimilarity.
C24_SelfSimilarityIsOne ==
    (recall.n > 0 /\ recall.op = "cosineSimilarity" /\ recall.a = recall.b
        /\ NonZero(recall.a)) =>
        /\ recall.score = One
        /\ recall.public = One

\* The same for the similarity that ranks the facts alone.
C24_RankingSimilarityIsOne ==
    (recall.n > 0 /\ recall.op = "cosineSimilarity" /\ recall.a = recall.b
        /\ NonZero(recall.a)) =>
        recall.score = One

\* C25: both similarities are 0 when the vectors differ in length, when one of them is
\* empty and when one of them has zero components only.
C25_DegenerateSimilarityIsZero ==
    (recall.n > 0 /\ recall.op = "cosineSimilarity"
        /\ (\/ Len(recall.a) # Len(recall.b)
            \/ Len(recall.a) = 0
            \/ Len(recall.b) = 0
            \/ ~NonZero(recall.a)
            \/ ~NonZero(recall.b))) =>
        /\ recall.score = ZeroScore
        /\ recall.public = ZeroScore

\* The similarities of a vector with a longer vector that starts with it were computed,
\* and those of a vector of zeros with a non-zero vector of the same length.
C25_Witness ==
    /\ recall.n > 0
    /\ recall.op = "cosineSimilarity"
    /\ \/ recall.a = <<1>> /\ recall.b = <<1, 3>>
       \/ recall.a = <<0, 0, 0>> /\ recall.b = <<1, 2, 2>>

\* The sum of the values of the characters of text that fall on component i.
RECURSIVE SumAt(_, _, _)
SumAt(text, i, j) ==
    IF j > Len(text) THEN 0
    ELSE (IF (j - 1) % dim = i - 1 THEN charValue(text[j]) ELSE 0) + SumAt(text, i, j + 1)

\* C26: the embedding of a text has 64 components, all zero for the empty text; each
\* character adds its value, a value in [0,1) (0 to 9 tenths), to the component at
\* position (character index mod 64); no component is negative.
C26_EmbeddingInUnitRange ==
    (recall.n > 0 /\ recall.op = "embedText") =>
        /\ Len(recall.v) = dim
        /\ recall.text = <<>> => \A i \in 1..dim : recall.v[i] = 0
        /\ \A i \in 1..dim : recall.v[i] = SumAt(recall.text, i, 1)
        /\ \A j \in DOMAIN recall.text : charValue(recall.text[j]) \in 0..9
        /\ \A i \in 1..dim : recall.v[i] >= 0

\* The same with the values the code adds: more than -1 and less than 1.
C26_EmbeddingShape ==
    (recall.n > 0 /\ recall.op = "embedText") =>
        /\ Len(recall.v) = dim
        /\ recall.text = <<>> => \A i \in 1..dim : recall.v[i] = 0
        /\ \A i \in 1..dim : recall.v[i] = SumAt(recall.text, i, 1)
        /\ \A j \in DOMAIN recall.text : charValue(recall.text[j]) \in -9..9

----------------------------------------------------------------------------
(* The registry and the Storage Manager called directly *)

MaxAdapters == 3

\* The handles a program may pass: the supported ones, a *sql.DB of another driver, nil,
\* and a handle of a type the package does not know.
Handles == Dialects \cup {"mysql", "nil", "unsupported"}

\* The adapters RegistryDriver may be given.
Adapters ==
    {[type |-> "SQLAdapter", dialect |-> "sqlite"], [type |-> "SQLAdapter", dialect |-> "postgres"],
     [type |-> "MongoAdapter", dialect |-> "mongodb"],
     [type |-> "CustomAdapter", dialect |-> "custom"],
     [type |-> "CustomAdapter", dialect |-> "sqlite"]}

\* RegisterAdapter(match, factory) by a program, after init() has run.
RegisterAdapterCall ==
    /\ Len(registry.adapters) < MaxAdapters
    /\ registry' = RegisterAdapter(registry, "isCustom", "newCustomAdapter")
    /\ UNCHANGED <<stream, dialect, schema, manager, now, db, memori_counters, repoVars, augVars,
                   writerVars>>

\* RegistryAdapter(conn)
AdapterCall(c) ==
    /\ ncalls < MaxCalls
    /\ ncalls' = ncalls + 1
    /\ LET r == RegistryAdapter(registry, c)
       IN calls' = calls \cup {[n |-> ncalls + 1, op |-> "RegistryAdapter", reg |-> registry,
                                conn |-> c, adapter |-> r.adapter, err |-> r.err]}
    /\ UNCHANGED <<stream, storeVars, rc, augVars, writerVars>>

\* RegistryDriver(adapter)
DriverCall(a) ==
    /\ ncalls < MaxCalls
    /\ ncalls' = ncalls + 1
    /\ LET r == RegistryDriver(registry, a)
       IN calls' = calls \cup {[n |-> ncalls + 1, op |-> "RegistryDriver", reg |-> registry,
                                adapter |-> a, driver |-> r.driver, err |-> r.err]}
    /\ UNCHANGED <<stream, storeVars, rc, augVars, writerVars>>

\* m.Storage.Start(conn); the backend a handle leads to has seen no Build.
StartCall(c) ==
    /\ ncalls < MaxCalls
    /\ ncalls' = ncalls + 1
    /\ LET r == ManagerStart(registry, manager, c)
       IN /\ manager' = r.manager
          /\ dialect' = ManagerDialect(r.manager)
          /\ schema' = IF r.manager = manager THEN schema
                       ELSE Fresh(migrations(ManagerDialect(r.manager)))
          /\ calls' = calls \cup {[n |-> ncalls + 1, op |-> "Start", reg |-> registry,
                                   conn |-> c, before |-> manager, after |-> r.manager,
                                   err |-> r.err]}
    /\ conn' = c
    /\ UNCHANGED <<stream, registry, now, db, memori_counters, rc, augVars, Config, Cache, wr, nexec,
                   nfail, ncfg, ntokens, limits, last, recall>>

\* m.Storage.Dialect()
DialectCall ==
    /\ ncalls < MaxCalls
    /\ ncalls' = ncalls + 1
    /\ calls' = calls \cup {[n |-> ncalls + 1, op |-> "Dialect", manager |-> manager,
                             result |-> ManagerDialect(manager)]}
    /\ UNCHANGED <<stream, storeVars, rc, augVars, writerVars>>

\* storage.NewManager() after init().
InitRegistry ==
    /\ conn = "none"
    /\ dialect = ""
    /\ schema = Fresh(migrations(""))
    /\ registry = initRegistry
    /\ manager = NoManager
    /\ now = 0
    /\ db = EmptyDB
    /\ memori_counters = [coll \in Collections |-> 0]
    /\ rc = [c \in Clients |-> Idle]
    /\ ncalls = 0
    /\ calls = {}
    /\ queue = <<>>
    /\ started = FALSE
    /\ spawned = 0
    /\ wk = [w \in Workers |-> Receiving]
    /\ nenq = 0
    /\ upserted = <<>>
    /\ Config = newConfig
    /\ Cache = EmptyCache
    /\ wr = [c \in Writers |-> WriterIdle]
    /\ nexec = 0
    /\ nfail = 0
    /\ ncfg = 0
    /\ ntokens = 1
    /\ limits = NoLimits
    /\ last = NoAttempt
    /\ recall = NoRecall
    /\ stream = NoStream

NextRegistry ==
    \/ RegisterAdapterCall
    \/ \E c \in Handles : AdapterCall(c)
    \/ \E a \in Adapters : DriverCall(a)
    \/ \E c \in Handles : StartCall(c)
    \/ \E failAt \in {0, 1}, err \in MigrateErrors : Build(failAt, err)
    \/ DialectCall

SpecRegistry == InitRegistry /\ [][NextRegistry]_vars

\* The pairs of a registry whose matcher accepts the connection.
Accepting(reg, c) == {i \in DOMAIN reg.adapters : Accepts(reg.adapters[i].match, c)}

\* C27: RegistryAdapter returns what the factory of the earliest registered accepting
\* pair makes of the connection, and the no-adapter error when no pair accepts it;
\* RegistryDriver returns what the factory registered for the adapter's dialect makes of
\* the adapter, and a no-driver error naming the dialect when none is registered.
C27_RegistryDispatch ==
    \A k \in calls :
        /\ k.op = "RegistryAdapter" =>
             IF Accepting(k.reg, k.conn) = {}
             THEN /\ k.adapter = <<>>
                  /\ SubSeq(k.err, 1, Len(ErrNoAdapter)) = ErrNoAdapter
             ELSE \E i \in Accepting(k.reg, k.conn) :
                    /\ \A j \in Accepting(k.reg, k.conn) : i <= j
                    /\ [adapter |-> k.adapter, err |-> k.err]
                           = Product(k.reg.adapters[i].factory, k.conn)
        /\ k.op = "RegistryDriver" =>
             IF k.adapter.dialect \in DOMAIN k.reg.drivers
             THEN [driver |-> k.driver, err |-> k.err]
                      = DriverProduct(k.reg.drivers[k.adapter.dialect], k.adapter.dialect,
                                      k.adapter)
             ELSE /\ k.driver = <<>>
                  /\ k.err = <<"no", "driver", "registered", "for", "dialect:",
                               k.adapter.dialect>>

\* A *sql.DB handle was resolved in a registry where two pairs accept it, and a driver
\* was asked for a dialect that has none.
C27_Witness ==
    /\ \E k \in calls :
          /\ k.op = "RegistryAdapter"
          /\ Cardinality(Accepting(k.reg, k.conn)) = 2
          /\ k.adapter # <<>>
          /\ k.adapter[1].type = "SQLAdapter"
    /\ \E k \in calls :
          /\ k.op = "RegistryDriver"
          /\ k.adapter.dialect = "custom"
          /\ k.err # Nil

\* The Start call has a resolution that fails.
ResolutionFails(k) ==
    \/ RegistryAdapter(k.reg, k.conn).err # Nil
    \/ RegistryDriver(k.reg, RegistryAdapter(k.reg, k.conn).adapter[1]).err # Nil

\* C28: Start(nil) returns success and changes nothing; a Start of which the adapter or
\* the driver resolution fails returns an error and leaves adapter and driver as they
\* were (both nil on a new manager); on a manager without a driver Build returns success
\* and runs no statement, and Dialect returns "".
C28_UnboundManager ==
    \A k \in calls :
        /\ k.op = "Start" =>
             /\ k.conn = "nil" => (k.err = Nil /\ k.after = k.before)
             /\ (k.conn # "nil" /\ ResolutionFails(k)) => k.err # Nil
             /\ k.err # Nil => k.after = k.before
             /\ (k.after.adapter = <<>>) = (k.after.driver = <<>>)
        /\ (k.op = "Build" /\ k.dialect = "") =>
             (k.err = Nil /\ k.applied = <<>> /\ k.after = k.before)
        /\ (k.op = "Dialect" /\ k.manager = NoManager) => k.result = ""

\* On a new manager a Start failed for want of a driver, and Build was called after it.
C28_Witness ==
    \E k, b \in calls :
        /\ k.op = "Start"
        /\ k.before = NoManager
        /\ k.err # Nil
        /\ k.err[2] = "driver"
        /\ b.op = "Build"
        /\ b.n > k.n
        /\ b.dialect = ""
        /\ b.err = Nil

----------------------------------------------------------------------------
(* Attribution with ids at and beyond the limit, followed by Execute *)

LongIDs == {"", "u1", ID100, ID101, Wide51}

\* m.Attribution(entityID, processID) by a program that recovers from the panic.
AttributionCall(entityID, processID) ==
    /\ ncfg < limits.cfgs
    /\ ncfg' = ncfg + 1
    /\ ncalls' = ncalls + 1
    /\ LET r == SetAttribution(Config, entityID, processID)
       IN /\ Config' = r.Config
          /\ calls' = calls \cup {[n |-> ncalls + 1, op |-> "Attribution",
                                   entityID |-> entityID, processID |-> processID,
                                   before |-> Config, after |-> r.Config,
                                   panic |-> r.panic]}
    /\ UNCHANGED <<stream, storeVars, rc, augVars, conn, Cache, wr, nexec, nfail, ntokens, limits,
                   last, recall>>

\* memori.New(WithStorageConn(conn)) on a supported connection; the backend never fails.
InitAttribution ==
    /\ conn \in Dialects
    /\ dialect = Start(conn)
    /\ schema = Built(dialect)
    /\ registry = initRegistry
    /\ manager = Started(dialect)
    /\ now = 0
    /\ db = EmptyDB
    /\ memori_counters = [coll \in Collections |-> 0]
    /\ rc = [c \in Clients |-> Idle]
    /\ ncalls = 0
    /\ calls = {}
    /\ queue = <<>>
    /\ started = FALSE
    /\ spawned = 0
    /\ wk = [w \in Workers |-> Receiving]
    /\ nenq = 0
    /\ upserted = <<>>
    /\ Config = newConfig
    /\ Cache = EmptyCache
    /\ wr = [c \in Writers |-> WriterIdle]
    /\ nexec = 0
    /\ nfail = 0
    /\ ncfg = 0
    /\ ntokens = 1
    /\ limits = [execs |-> MaxExecs, faults |-> 0, cfgs |-> MaxConfigOps + 1]
    /\ last = NoAttempt
    /\ recall = NoRecall
    /\ stream = NoStream

NextAttribution ==
    \/ \E entityID, processID \in LongIDs : AttributionCall(entityID, processID)
    \/ WriterExecute(Caller)
    \/ WriterAttempt(Caller)

SpecAttribution == InitAttribution /\ [][NextAttribution]_vars

\* The external ids of the rows of a collection.
ExternalIDsOf(coll) == {db[coll][i].external_id : i \in DOMAIN db[coll]}

\* C29: an Attribution call with an entity or process id of more than 100 characters
\* panics and leaves the configured ids as they were, and no row of memori_entity or
\* memori_process has an external id of more than 100 characters.
C29_LongExternalIDsAreRejected ==
    /\ \A k \in calls :
          (k.op = "Attribution"
             /\ (chars(k.entityID) > maxExternalIDLen \/ chars(k.processID) > maxExternalIDLen))
          => (k.panic # NoPanic /\ k.after = k.before)
    /\ \A id \in ExternalIDsOf("memori_entity") \cup ExternalIDsOf("memori_process") :
          chars(id) <= maxExternalIDLen

\* After Attribution("u1", <100 characters>) an Attribution with a process id of 101
\* characters panicked, and an Execute after it wrote the rows of the ids still configured.
C29_Witness ==
    /\ \E k \in calls :
          /\ k.op = "Attribution"
          /\ k.before.EntityID = "u1"
          /\ k.processID = ID101
          /\ k.panic # NoPanic
          /\ Config = k.after
    /\ ExternalIDsOf("memori_entity") = {"u1"}
    /\ ExternalIDsOf("memori_process") = {ID100}

----------------------------------------------------------------------------
(* The queue and the workers under fair scheduling *)

\* The workers are scheduled: a step of worker() that stays possible is taken.
FairWorkers ==
    /\ WF_vars(\E w \in Workers : WorkerReceive(w))
    /\ WF_vars(\E w \in Workers : WorkerResolve(w))
    /\ WF_vars(\E w \in Workers : WorkerUpsert(w))
    /\ WF_vars(\E w \in Workers : WorkerSummary(w))

SpecJobs == InitAug /\ [][NextAug]_vars /\ FairWorkers

\* The worker holds a job: it is between the receive and the end of processInput.
Busy(w) == wk[w].pc # "recv"

\* In this step the worker takes a job.
Takes(w) == ~Busy(w) /\ Busy(w)'

\* A job enters the queue only at its end, by an Enqueue call that carries an identity
\* and finds room.
AcceptStep ==
    Len(queue') > Len(queue) =>
        /\ nenq' = nenq + 1
        /\ Len(queue) < queueCap
        /\ \E input \in JobInputs : input.EntityID # "" /\ queue' = Append(queue, input)
        /\ wk' = wk

\* A job leaves the queue only from its head, into the hands of one worker that was
\* waiting, and a worker gets a job only so.
TakeStep ==
    /\ Len(queue') < Len(queue) =>
          /\ queue' = Tail(queue)
          /\ Cardinality({w \in Workers : Takes(w)}) = 1
    /\ \A w \in Workers :
          Takes(w) =>
             /\ queue # <<>>
             /\ queue' = Tail(queue)
             /\ wk'[w].pc = "resolve"
             /\ wk'[w].job = Head(queue)
             /\ \A v \in Workers \ {w} : wk'[v] = wk[v]

\* A worker keeps its job until the end of processInput, goes through the resolution
\* once, and nobody else touches the job.
ProcessStep ==
    \A w \in Workers :
        (Busy(w) /\ Busy(w)') =>
            /\ wk'[w].job = wk[w].job
            /\ wk'[w].pc = "resolve" => wk'[w] = wk[w]

\* C31: a job enters the queue only by an accepting Enqueue; each job leaves the queue
\* from its head into the hands of exactly one worker, which processes it once from
\* the resolution to the end; with the workers scheduled, the queue ends up empty and
\* every worker back at the receive, so that every accepted job was taken and finished.
C31_EachJobIsProcessedOnce ==
    /\ [][AcceptStep /\ TakeStep /\ ProcessStep]_vars
    /\ <>[](queue = <<>> /\ \A w \in Workers : ~Busy(w))

\* Three jobs were accepted: two workers hold one each at the same time and the third
\* waits in the queue.
C31_Witness ==
    /\ nenq = 3
    /\ Len(queue) = 1
    /\ Cardinality({w \in Workers : Busy(w)}) = 2
    /\ \E w, v \in Workers : w # v /\ Busy(w) /\ Busy(v) /\ wk[w].job # wk[v].job

----------------------------------------------------------------------------
(* processInput on jobs with long, blank and system messages *)

Long(n, ch) == [i \in 1..n |-> ch]

\* The jobs: a message longer than a fact may be; messages whose joined text passes the
\* length of a summary at the second of three; a blank message between two others; an
\* identity that is not stored; a long message without a conversation.
LongJobs ==
    { [ConversationID |-> <<1>>, EntityID |-> "u1", ProcessID |-> "p1",
       Messages |-> <<Msg("system", <<"s">>), Msg("user", <<" ">> \o Long(600, "a") \o <<" ">>),
                      Msg("assistant", <<"b">>)>>],
      [ConversationID |-> <<1>>, EntityID |-> "u1", ProcessID |-> "p1",
       Messages |-> <<Msg("user", Long(300, "c")), Msg("assistant", Long(300, "b")),
                      Msg("user", <<"a">>)>>],
      [ConversationID |-> <<1>>, EntityID |-> "u1", ProcessID |-> "",
       Messages |-> <<Msg("user", <<"a">>), Msg("user", <<" ", "\n">>),
                      Msg("assistant", <<"b">>)>>],
      [ConversationID |-> <<1>>, EntityID |-> "u2", ProcessID |-> "p1",
       Messages |-> <<Msg("user", <<"a">>)>>],
      [ConversationID |-> NilConv, EntityID |-> "u1", ProcessID |-> "p1",
       Messages |-> <<Msg("user", Long(501, "r"))>>] }

\* AugmentationManager.Enqueue, with the call kept in the history.
EnqueueJob(input) ==
    /\ ncalls < MaxCalls
    /\ nenq' = nenq + 1
    /\ IF input.EntityID = ""
       THEN UNCHANGED <<stream, queue, started, spawned>>
       ELSE /\ started' = TRUE
            /\ spawned' = startOnce(started, spawned)
            /\ queue' = Offer(queue, input)
    /\ ncalls' = ncalls + 1
    /\ calls' = calls \cup {[n |-> ncalls + 1, op |-> "Enqueue", input |-> input]}
    /\ UNCHANGED <<stream, storeVars, rc, writerVars, wk, upserted>>

NextProcess ==
    \/ \E input \in LongJobs : EnqueueJob(input)
    \/ \E w \in Workers : WorkerReceive(w)
    \/ \E w \in Workers : WorkerResolve(w)
    \/ \E w \in Workers : WorkerUpsert(w)
    \/ \E w \in Workers : WorkerSummary(w)

SpecProcess == InitAug /\ [][NextProcess]_vars

\* The non-system messages of a job, in order.
NonSystem(msgs) == SelectSeq(msgs, LAMBDA msg : msg.Role # "system")

\* The text of each non-system message, trimmed and cut to the length of a fact.
FactTexts(msgs) ==
    [i \in 1..Len(NonSystem(msgs)) |-> CutTo(TrimSpace(NonSystem(msgs)[i].Content), maxFactLen)]

\* The same without the texts that are empty after trimming.
NonBlankFactTexts(msgs) == SelectSeq(FactTexts(msgs), LAMBDA f : f # <<>>)

FactKeys(table) == {<<table[i].entity_id, table[i].uniq>> : i \in DOMAIN table}

\* The occurrence count stored for an (identity, fingerprint) pair.
StoredTimes(table, key) ==
    IF FactRows(table, key[1], key[2]) = {} THEN 0
    ELSE table[FirstIndex(FactRows(table, key[1], key[2]))].num_times

RECURSIVE SumOver(_, _)
SumOver(f, S) ==
    IF S = {} THEN 0 ELSE LET x == CHOOSE y \in S : TRUE IN f[x] + SumOver(f, S \ {x})

\* The number of fact upserts made so far.
Upserts == SumOver(upserted, DOMAIN upserted)

\* The worker leaves the resolution with the facts of its job, in message order.
ExtractStep(w) ==
    (wk[w].pc = "resolve" /\ wk'[w].pc \in {"upsert", "summary"}) =>
        wk'[w].facts = NonBlankFactTexts(wk[w].job.Messages)

\* A step of the worker at the upsert writes the first of its remaining facts under the
\* SHA-256 of the fact, touches no other fact and no summary, and goes on with the rest.
UpsertStep(w) ==
    (wk[w].pc = "upsert" /\ wk'[w] # wk[w]) =>
        LET f == Head(wk[w].facts)
            key == <<wk[w].entityID, hashString(f)>>
            old == db["memori_entity_fact"]
            new == db'["memori_entity_fact"]
        IN /\ Len(f) <= maxFactLen
           /\ FactKeys(new) = FactKeys(old) \cup {key}
           /\ \A k \in FactKeys(new) :
                 StoredTimes(new, k) = StoredTimes(old, k) + (IF k = key THEN 1 ELSE 0)
           /\ StoredTimes(old, key) = 0 =>
                 new[FirstIndex(FactRows(new, key[1], key[2]))].content = f
           /\ db'["memori_conversation"] = db["memori_conversation"]
           /\ IF Tail(wk[w].facts) # <<>>
              THEN wk'[w] = [wk[w] EXCEPT !.facts = Tail(@)]
              ELSE IF wk[w].job.ConversationID # NilConv
              THEN wk'[w] = [wk[w] EXCEPT !.facts = <<>>, !.pc = "summary"]
              ELSE wk'[w] = Receiving

\* A summary is written by a worker that has no fact left to upsert, as the last step of
\* its job, and no fact is written in that step.
SummaryStep ==
    db'["memori_conversation"] # db["memori_conversation"] =>
        /\ db'["memori_entity_fact"] = db["memori_entity_fact"]
        /\ \E w \in Workers :
              /\ wk[w].pc = "summary"
              /\ wk[w].facts = <<>>
              /\ wk'[w] = Receiving

\* A worker is about to write the summary of the only job enqueued.
AtSummaryOfOnlyJob(w) == wk[w].pc = "summary" /\ nenq = 1

\* C32 as stated: when a worker comes to the summary of the only job, it has upserted
\* one fact for every non-system message of the job.
C32_OneFactPerNonSystemMessage ==
    \A w \in Workers :
        AtSummaryOfOnlyJob(w) => Upserts = Len(NonSystem(wk[w].job.Messages))

\* C32, amended: for one job a worker upserts one fact per non-system message whose
\* trimmed text is not empty, in message order, the content being the trimmed text cut
\* to 500 characters and the fingerprint its SHA-256; the summary is written after all
\* fact upserts of the job, one write per step.
C32_FactsInOrderThenSummary ==
    /\ [][(\A w \in Workers : ExtractStep(w) /\ UpsertStep(w)) /\ SummaryStep]_vars
    /\ [](\A w \in Workers :
             AtSummaryOfOnlyJob(w) => Upserts = Len(NonBlankFactTexts(wk[w].job.Messages)))

\* The only job enqueued had a system message and a message of more than 500
\* characters: its two facts are stored, the long one cut, and the worker is at the
\* summary.
C32_Witness ==
    \E w \in Workers :
        /\ AtSummaryOfOnlyJob(w)
        /\ Len(wk[w].job.Messages) = 3
        /\ wk[w].job.Messages[1].Role = "system"
        /\ Len(db["memori_entity_fact"]) = 2
        /\ db["memori_entity_fact"][1].content = Long(500, "a")
        /\ db["memori_entity_fact"][2].content = <<"b">>

\* The trimmed text of each non-system message.
TrimmedTexts(msgs) == [i \in 1..Len(NonSystem(msgs)) |-> TrimSpace(NonSystem(msgs)[i].Content)]

\* The same without the empty ones.
NonBlankTexts(msgs) == SelectSeq(TrimmedTexts(msgs), LAMBDA t : t # <<>>)

\* The number of leading texts taken: up to and including the first that makes their
\* newline-joined text longer than a summary may be, all of them if none does.
Taken(texts) ==
    LET over == {k \in 1..Len(texts) : Len(Join(SubSeq(texts, 1, k), <<"\n">>)) > maxLen}
    IN IF over = {} THEN Len(texts) ELSE FirstIndex(over)

\* The newline-joined leading texts, cut to the length of a summary.
SummaryOf(texts) == CutTo(Join(SubSeq(texts, 1, Taken(texts)), <<"\n">>), maxLen)

\* The jobs enqueued so far for a conversation under a stored identity.
JobsFor(conversationID) ==
    {k.input : k \in {c \in calls : /\ c.op = "Enqueue"
                                    /\ c.input.ConversationID = <<conversationID>>
                                    /\ GetByExternalID(db["memori_entity"],
                                                       c.input.EntityID).err = Nil}}

Summaries == {db["memori_conversation"][i] : i \in DOMAIN db["memori_conversation"]}

\* C33 as stated: a summary written by a worker is at most 512 characters long and is
\* made of the trimmed texts of all non-system messages of a job of the conversation.
C33_SummaryOfAllNonSystemMessages ==
    \A row \in Summaries :
        /\ Len(row.summary) <= maxLen
        /\ row.summary # <<>> =>
              \E job \in JobsFor(row.id) : row.summary = SummaryOf(TrimmedTexts(job.Messages))

\* C33, amended: a summary written by a worker is at most 512 characters long and is
\* the newline-joined trimmed texts of the non-system messages of a job of the
\* conversation, those that are empty after trimming left out, in order, taken up to and
\* including the first that makes the joined text exceed 512 characters, cut to 512.
C33_SummaryOfNonBlankMessages ==
    \A row \in Summaries :
        /\ Len(row.summary) <= maxLen
        /\ row.summary # <<>> =>
              \E job \in JobsFor(row.id) : row.summary = SummaryOf(NonBlankTexts(job.Messages))

\* The summary of the job whose second message passes 512 characters is stored: 300
\* characters, a newline and the first 211 of the second message, without the third.
C33_Witness ==
    \E row \in Summaries : row.summary = Long(300, "c") \o <<"\n">> \o Long(211, "b")

\* No Identity row is stored for the external id.
Unknown(externalID) == GetByExternalID(db["memori_entity"], externalID).err # Nil

\* The step of a worker that resolves a job of an identity that is not stored: it writes
\* nothing, keeps nothing of the job and is back at the receive.
UnknownIdentityStep(w) ==
    (wk[w].pc = "resolve" /\ Unknown(wk[w].job.EntityID) /\ wk'[w] # wk[w]) =>
        /\ wk'[w] = Receiving
        /\ db' = db
        /\ upserted' = upserted
        /\ calls' = calls

\* C34: a worker whose job names an identity without a stored Identity row upserts no
\* fact and updates no summary for it, reports nothing, and is back at the receive for
\* the next job; no worker is ever at a write of such a job, and no fact is stored
\* under an identity that has no row.
C34_UnknownIdentityIsSkipped ==
    /\ [][\A w \in Workers : UnknownIdentityStep(w)]_vars
    /\ [](\A w \in Workers :
             wk[w].pc \in {"upsert", "summary"} => ~Unknown(wk[w].job.EntityID))
    /\ [](\A i \in DOMAIN db["memori_entity_fact"] :
             \E j \in DOMAIN db["memori_entity"] :
                 db["memori_entity"][j].id = db["memori_entity_fact"][i].entity_id)

\* The job of the identity without a row was enqueued first and a job of the stored
\* identity after it; both have been taken, the second one's facts are stored, and the
\* workers are back at the receive.
C34_Witness ==
    /\ \E k, l \in calls :
          /\ k.n = 1
          /\ k.input.EntityID = "u2"
          /\ l.n = 2
          /\ l.input.EntityID = "u1"
          /\ Len(db["memori_entity_fact"]) = Len(NonBlankFactTexts(l.input.Messages))
    /\ queue = <<>>
    /\ \A w \in Workers : ~Busy(w)
    /\ db["memori_entity_fact"] # <<>>

----------------------------------------------------------------------------
(* The rows of a call that succeeded after failed attempts *)

\* The first Execute call of the program has returned nil and no other was started.
OnlyCallSucceeded(c) ==
    /\ wr[c].pc = "done"
    /\ wr[c].bound
    /\ wr[c].result = Nil
    /\ nexec = 1

\* C35: when the only Execute call made returns success, the message table holds each
\* non-system message of its payload and the response exactly once, also when earlier
\* attempts of the call failed with a transient error after some of their inserts.
C35_SuccessWritesEachMessageOnce ==
    \A c \in Writers :
        OnlyCallSucceeded(c) => MessageRows = Expected(wr[c].payload, last.conv)

\* The same for a call that succeeded at its first attempt.
C35_FirstAttemptWritesEachMessageOnce ==
    \A c \in Writers :
        (OnlyCallSucceeded(c) /\ Len(wr[c].errs) = 1) =>
            MessageRows = Expected(wr[c].payload, last.conv)

----------------------------------------------------------------------------
(* Execute calls around NewSession and SetSession *)

\* The tokens a program passes to SetSession: the one memori.New drew and one of its own.
CallerTokens == {1, 9}

NextSwitch ==
    \/ WriterExecute(Caller)
    \/ WriterAttempt(Caller)
    \/ NewSession
    \/ \E id \in CallerTokens : SetSession(id)

SpecSwitch == InitAttribution /\ [][NextSwitch]_vars

\* The tokens of the sessions that own the conversation.
TokensOf(conversationID) ==
    {db["memori_session"][s].uuid :
        s \in {i \in DOMAIN db["memori_session"] :
                 \E j \in DOMAIN db["memori_conversation"] :
                     /\ db["memori_conversation"][j].id = conversationID
                     /\ db["memori_conversation"][j].session_id = db["memori_session"][i].id}}

\* The latest attempt succeeded and wrote rows.
Wrote == last.caller # 0 /\ last.err = Nil /\ last.upto > last.from

C36_WritesAfterResetGoToTheConfiguredSession ==
    (Wrote /\ last.cached["session_id"] = <<>>) => TokensOf(last.conv) = {last.cfg.SessionID}

----------------------------------------------------------------------------
(* Execute, the workers and SearchFacts while the attribution changes *)

\* memori.New(WithStorageConn(conn)) on an empty database, with Attribution("u1", "p1")
\* or none; the backend never fails.
InitIsolation ==
    /\ conn \in Dialects
    /\ dialect = Start(conn)
    /\ schema = Built(dialect)
    /\ registry = initRegistry
    /\ manager = Started(dialect)
    /\ now = 0
    /\ db = EmptyDB
    /\ memori_counters = [coll \in Collections |-> 0]
    /\ rc = [c \in Clients |-> Idle]
    /\ ncalls = 0
    /\ calls = {}
    /\ queue = <<>>
    /\ started = FALSE
    /\ spawned = 0
    /\ wk = [w \in Workers |-> Receiving]
    /\ nenq = 0
    /\ upserted = <<>>
    /\ Config \in {newConfig, [newConfig EXCEPT !.EntityID = "u1", !.ProcessID = "p1"]}
    /\ Cache = EmptyCache
    /\ wr = [c \in Writers |-> WriterIdle]
    /\ nexec = 0
    /\ nfail = 0
    /\ ncfg = 0
    /\ ntokens = 1
    /\ limits = [execs |-> MaxExecs, faults |-> 0, cfgs |-> MaxConfigOps + 1]
    /\ last = NoAttempt
    /\ recall = NoRecall
    /\ stream = NoStream

\* One SearchFacts call, made at any moment.
IsolationRecall(query) ==
    /\ recall.n = 0
    /\ RecallCall(query, RecallLimit)

NextIsolation ==
    \/ WriterExecute(Caller)
    \/ WriterAttempt(Caller)
    \/ \E a \in Attributions : Attribution(a[1], a[2])
    \/ NewSession
    \/ \E w \in Workers : WorkerReceive(w)
    \/ \E w \in Workers : WorkerResolve(w)
    \/ \E w \in Workers : WorkerUpsert(w)
    \/ \E w \in Workers : WorkerSummary(w)
    \/ \E query \in QueryTexts : IsolationRecall(query)

SpecIsolation == InitIsolation /\ [][NextIsolation]_vars

\* The internal ids of the Identity rows of an external id.
IdsOf(externalID) ==
    {db["memori_entity"][j].id :
        j \in {i \in DOMAIN db["memori_entity"] :
                 db["memori_entity"][i].external_id = externalID}}

\* The job Execute puts into the queue names the identity attributed during the call
\* and carries the messages of the call's payload.
OfferStep ==
    Len(queue') > Len(queue) =>
        /\ Config' = Config
        /\ Config.EntityID # ""
        /\ queue' = Append(queue, [ConversationID |-> <<last'.conv>>,
                                   EntityID |-> Config.EntityID,
                                   ProcessID |-> Config.ProcessID,
                                   Messages |-> wr[Caller].payload.Messages])

\* The rows of the new fact table that are not as in the old one.
Touched(old, new) == {i \in DOMAIN new : i \notin DOMAIN old \/ new[i] # old[i]}

\* A fact is written by a worker under the Identity row of the external id its job
\* names, whatever identity is attributed at that moment, and its content is a fact of
\* the job's messages.
StoreStep ==
    db'["memori_entity_fact"] # db["memori_entity_fact"] =>
        \E w \in Workers :
            /\ wk[w].pc = "upsert"
            /\ wk'[w] # wk[w]
            /\ \A i \in Touched(db["memori_entity_fact"], db'["memori_entity_fact"]) :
                  LET row == db'["memori_entity_fact"][i]
                  IN /\ row.entity_id \in IdsOf(wk[w].job.EntityID)
                     /\ \E k \in DOMAIN NonBlankFactTexts(wk[w].job.Messages) :
                           row.content = NonBlankFactTexts(wk[w].job.Messages)[k]

\* SearchFacts answers with facts stored under the Identity row of the external id
\* attributed at the call, and with nothing when that id has no row.
SearchStep ==
    recall'.n = recall.n + 1 =>
        \A i \in DOMAIN recall'.result :
            \E k \in DOMAIN db["memori_entity_fact"] :
                /\ db["memori_entity_fact"][k].entity_id \in IdsOf(Config.EntityID)
                /\ db["memori_entity_fact"][k].content = recall'.result[i].Content
                /\ db["memori_entity_fact"][k].num_times = recall'.result[i].NumTimes

\* C37: the facts of an Execute call are stored under the identity attributed when the
\* call ran, also when the attribution has changed before a worker handles the job,
\* and SearchFacts returns only facts stored under the identity attributed at the
\* search; an external id has at most one Identity row, and every fact belongs to one.
C37_FactsStayWithTheirIdentity ==
    /\ [][OfferStep /\ StoreStep /\ SearchStep]_vars
    /\ [](\A a \in Attributions : Cardinality(IdsOf(a[1])) <= 1)
    /\ [](\A k \in DOMAIN db["memori_entity_fact"] :
             \E a \in Attributions : db["memori_entity_fact"][k].entity_id \in IdsOf(a[1]))

\* The facts held under an external id.
FactsOf(externalID) ==
    {db["memori_entity_fact"][k].content :
        k \in {i \in DOMAIN db["memori_entity_fact"] :
                 db["memori_entity_fact"][i].entity_id \in IdsOf(externalID)}}

\* "u1" wrote a message "a", the attribution changed to "u2", which wrote "a" and "c";
\* each identity holds its own facts and a search under "u2" returned those of "u2".
C37_Witness ==
    /\ Config.EntityID = "u2"
    /\ FactsOf("u1") = {<<"a">>}
    /\ FactsOf("u2") = {<<"a">>, <<"c">>}
    /\ recall.n = 1
    /\ {recall.result[i].Content : i \in DOMAIN recall.result} = {<<"a">>, <<"c">>}


----------------------------------------------------------------------------
(* The stored schema version over the Build calls of a run *)

\* The stored version of the backend is v after the call and was not before it.
Becomes(k, v) == getSchemaVersion(k.after) = v /\ getSchemaVersion(k.before) # v

\* Every operation of version v of the table is among the schema objects after the call.
EveryOperationApplied(k, v) ==
    \A i \in DOMAIN k.before.table[v] : k.before.table[v][i] \in k.after.objects

\* The call ran no statement and left the backend as it was.
NoSchemaOperation(k) == k.applied = <<>> /\ k.after = k.before

\* C38: in every dialect a Build never lowers the stored schema version, the stored
\* version becomes v only with every operation of version v applied, and a Build on a
\* backend whose stored version is the latest runs no schema operation and returns
\* success.
C38_VersionOnlyAfterEveryOperation ==
    \A k \in BuildCalls :
        /\ getSchemaVersion(k.after) >= getSchemaVersion(k.before)
        /\ \A v \in DOMAIN k.before.table : Becomes(k, v) => EveryOperationApplied(k, v)
        /\ getSchemaVersion(k.before) >= maxVersion => (NoSchemaOperation(k) /\ k.err = Nil)

\* The same where no index creation of a document backend met a duplicate-key error:
\* the relational dialects, and the document dialect with any other outcome.
C38_ExceptIgnoredDuplicateKey ==
    \A k \in BuildCalls :
        /\ getSchemaVersion(k.after) >= getSchemaVersion(k.before)
        /\ \A v \in DOMAIN k.before.table :
               (/\ Becomes(k, v)
                /\ ~(/\ k.dialect = "mongodb"
                     /\ k.cause = ErrDuplicateKey
                     /\ k.failAt \in DOMAIN PlanOf(k)
                     /\ PlanOf(k)[k.failAt].kind = "op"))
               => EveryOperationApplied(k, v)
        /\ getSchemaVersion(k.before) >= maxVersion => (NoSchemaOperation(k) /\ k.err = Nil)

\* A Build went through and a second Build on the migrated backend has returned.
C38_SecondBuildReached ==
    \E k, l \in BuildCalls :
        /\ k.n < l.n
        /\ Becomes(k, maxVersion)
        /\ l.before = k.after
        /\ NoSchemaOperation(l)


----------------------------------------------------------------------------
(* ChatCompletionsStream of the memori-aware client *)

chanCap == 128
MaxChunks == 2

\* StreamEvent{RawLine: "[DONE]", Done: true}
DoneEvent == [Done |-> TRUE, Chunk |-> <<>>]

\* StreamEvent{Chunk: &chunk} for a line that parses, StreamEvent{Chunk: nil} for one
\* that does not. A chunk is its Choices, each with Delta.Content and Message.Content.
ChunkEvent(choices) == [Done |-> FALSE, Chunk |-> <<[Choices |-> choices]>>]
Choice(delta, message) == [Delta |-> delta, Message |-> message]
UnparsedEvent == [Done |-> FALSE, Chunk |-> <<>>]

\* The events a provider's lines give: chunks with a delta, a chunk without choices, a
\* chunk with an empty delta and a message, a line that is not JSON.
Events ==
    { ChunkEvent(<<Choice(<<"a">>, <<>>)>>),
      ChunkEvent(<<Choice(<<"b">>, <<>>)>>),
      ChunkEvent(<<>>),
      ChunkEvent(<<Choice(<<>>, <<"m">>)>>),
      UnparsedEvent }

\* What the response body holds: data lines, then [DONE], the end of the body, or a
\* read error.
Endings == {"done", "eof", "error"}
Scripts == UNION {[1..n -> Events] : n \in 0..MaxChunks}

ScanError == <<"unexpected", "EOF">>

\* ChatCompletionsRequest of the run
Request == [Model |-> "m1", Messages |-> <<[Role |-> "user", Content |-> <<"q">>]>>]

\* The zero ChatCompletionsResponse
NoResponse == [Choices |-> <<>>]

\* MemoriOpenAIClient.ChatCompletionsStream: the raw stream is started, the two output
\* channels are made and the forwarding goroutine is started.
ChatCompletionsStream(script, ending) ==
    /\ stream.pc = "idle"
    /\ stream' = [pc |-> "open", req |-> Request, script |-> script, ending |-> ending,
                  lines |-> IF ending = "done" THEN Append(script, DoneEvent) ELSE script,
                  raw |-> "scan", emitted |-> <<>>,
                  inEvents |-> <<>>, inEventsClosed |-> FALSE,
                  inErrs |-> <<>>, inErrsClosed |-> FALSE,
                  fwd |-> "select", b |-> <<>>, lastResp |-> NoResponse,
                  outEvents |-> <<>>, outErrs |-> <<>>, outClosed |-> FALSE,
                  got |-> <<>>, persisted |-> <<>>]
    /\ UNCHANGED <<storeVars, repoVars, augVars, writerVars>>

\* OpenAICompatClient.ChatCompletionsStream, the goroutine: one data line of the body
\* becomes an event on the events channel; after [DONE] the goroutine returns.
RawScan ==
    /\ stream.pc = "open"
    /\ stream.raw = "scan"
    /\ stream.lines # <<>>
    /\ Len(stream.inEvents) < chanCap
    /\ stream' = [stream EXCEPT !.inEvents = Append(@, Head(stream.lines)),
                                !.emitted = Append(@, Head(stream.lines)),
                                !.lines = Tail(@),
                                !.raw = IF Head(stream.lines).Done THEN "return" ELSE "scan"]
    /\ UNCHANGED <<storeVars, repoVars, augVars, writerVars>>

\* scanner.Scan() returns false: a read error goes to errs, then the goroutine returns.
RawScanEnd ==
    /\ stream.pc = "open"
    /\ stream.raw = "scan"
    /\ stream.lines = <<>>
    /\ stream' = [stream EXCEPT !.inErrs = IF stream.ending = "error" THEN <<ScanError>> ELSE @,
                                !.raw = "return"]
    /\ UNCHANGED <<storeVars, repoVars, augVars, writerVars>>

\* The deferred calls of the raw goroutine, last registered first: close(errs) ...
RawCloseErrs ==
    /\ stream.pc = "open"
    /\ stream.raw = "return"
    /\ stream' = [stream EXCEPT !.inErrsClosed = TRUE, !.raw = "closeEvents"]
    /\ UNCHANGED <<storeVars, repoVars, augVars, writerVars>>

\* ... then close(events).
RawCloseEvents ==
    /\ stream.pc = "open"
    /\ stream.raw = "closeEvents"
    /\ stream' = [stream EXCEPT !.inEventsClosed = TRUE, !.raw = "done"]
    /\ UNCHANGED <<storeVars, repoVars, augVars, writerVars>>

\* MemoriOpenAIClient.persist: the payload handed to Writer.Execute.
persist(req, resp, streamedText) ==
    [Messages |-> [i \in DOMAIN req.Messages |->
                      [Role |-> req.Messages[i].Role, Type |-> "",
                       Content |-> req.Messages[i].Content]],
     Response |-> <<[Role |-> "assistant", Type |-> "text",
                     Content |-> IF streamedText = <<>> /\ resp.Choices # <<>>
                                 THEN resp.Choices[1].Message
                                 ELSE streamedText]>>]

\* `_ = c.persist(...)` when called, on a backend that answers every call: Execute's
\* first executeTransaction goes through.
Persist(called, payload) ==
    IF called
    THEN LET tx == executeTransaction(payload, 0, Nil)
         IN /\ db' = tx.db
            /\ memori_counters' = tx.ctr
            /\ Cache' = tx.cache
            /\ queue' = tx.queue
            /\ started' = tx.started
            /\ spawned' = tx.spawned
            /\ nexec' = nexec + 1
    ELSE UNCHANGED <<db, memori_counters, Cache, queue, started, spawned, nexec>>

\* The forwarding goroutine, `case ev, ok := <-inEvents`: a closed and drained channel
\* ends the stream; an event is forwarded, its delta is added to the text, and [DONE]
\* persists and returns. The deferred calls close both output channels.
SelectEvent ==
    /\ stream.pc = "open"
    /\ stream.fwd = "select"
    /\ stream.inEvents # <<>> \/ stream.inEventsClosed
    /\ IF stream.inEvents = <<>>
       THEN LET called == stream.b # <<>> \/ stream.lastResp.Choices # <<>>
                payload == persist(stream.req, stream.lastResp, stream.b)
            IN /\ Persist(called, payload)
               /\ stream' = [stream EXCEPT !.fwd = "done", !.outClosed = TRUE,
                                           !.persisted = IF called THEN Append(@, payload)
                                                         ELSE @]
       ELSE LET ev == Head(stream.inEvents)
                lastResp == IF ev.Chunk # <<>> THEN ev.Chunk[1] ELSE stream.lastResp
                b == IF ev.Chunk # <<>> /\ ev.Chunk[1].Choices # <<>>
                     THEN stream.b \o ev.Chunk[1].Choices[1].Delta
                     ELSE stream.b
                payload == persist(stream.req, lastResp, b)
            IN /\ Len(stream.outEvents) < chanCap
               /\ Persist(ev.Done, payload)
               /\ stream' = [stream EXCEPT !.inEvents = Tail(@),
                                           !.outEvents = Append(@, ev),
                                           !.lastResp = lastResp,
                                           !.b = b,
                                           !.fwd = IF ev.Done THEN "done" ELSE "select",
                                           !.outClosed = ev.Done,
                                           !.persisted = IF ev.Done THEN Append(@, payload)
                                                         ELSE @]
    /\ UNCHANGED <<dialect, schema, registry, manager, now, repoVars, wk, nenq, upserted,
                   conn, Config, wr, nfail, ncfg, ntokens, limits, last, recall>>

\* The forwarding goroutine, `case err, ok := <-inErrs`: ready when errs holds an error
\* or is closed, whatever inEvents holds; the error is passed on, the text so far is
\* persisted, and the goroutine returns.
SelectErr ==
    /\ stream.pc = "open"
    /\ stream.fwd = "select"
    /\ stream.inErrs # <<>> \/ stream.inErrsClosed
    /\ LET called == stream.b # <<>> \/ stream.lastResp.Choices # <<>>
           payload == persist(stream.req, stream.lastResp, stream.b)
       IN /\ Persist(called, payload)
          /\ stream' = [stream EXCEPT !.inErrs = <<>>,
                                      !.outErrs = @ \o stream.inErrs,
                                      !.fwd = "done", !.outClosed = TRUE,
                                      !.persisted = IF called THEN Append(@, payload) ELSE @]
    /\ UNCHANGED <<dialect, schema, registry, manager, now, repoVars, wk, nenq, upserted,
                   conn, Config, wr, nfail, ncfg, ntokens, limits, last, recall>>

\* The caller takes an event from the output channel.
CallerReceive ==
    /\ stream.pc = "open"
    /\ stream.outEvents # <<>>
    /\ stream' = [stream EXCEPT !.outEvents = Tail(@), !.got = Append(@, Head(stream.outEvents))]
    /\ UNCHANGED <<storeVars, repoVars, augVars, writerVars>>

NextStream ==
    \/ \E script \in Scripts, ending \in Endings : ChatCompletionsStream(script, ending)
    \/ RawScan
    \/ RawScanEnd
    \/ RawCloseErrs
    \/ RawCloseEvents
    \/ SelectEvent
    \/ SelectErr
    \/ CallerReceive

SpecStream == InitIsolation /\ [][NextStream]_vars

\* The events sent on the output channel so far.
Forwarded == stream.got \o stream.outEvents

\* The delta contents of the chunks among the events, concatenated.
RECURSIVE Deltas(_)
Deltas(events) ==
    IF events = <<>> THEN <<>>
    ELSE (IF Head(events).Chunk # <<>> /\ Head(events).Chunk[1].Choices # <<>>
          THEN Head(events).Chunk[1].Choices[1].Delta
          ELSE <<>>) \o Deltas(Tail(events))

\* The contents of the stored messages, in insertion order.
StoredContents ==
    [i \in DOMAIN db["memori_conversation_message"] |->
        db["memori_conversation_message"][i].content]

\* C39: when the underlying stream ended with [DONE] and without an error and the output
\* channel is closed, every event of the underlying stream has been forwarded, and
\* the conversation has been persisted once, with the concatenation of the delta
\* contents of all chunks of the stream as the assistant text.
C39_StreamForwardedAndPersistedOnce ==
    (stream.pc = "open" /\ stream.ending = "done" /\ stream.outClosed) =>
        /\ Forwarded = Append(stream.script, DoneEvent)
        /\ Len(stream.persisted) = 1
        /\ stream.persisted[1].Response[1].Content = Deltas(stream.script)
        /\ StoredContents = <<stream.req.Messages[1].Content, Deltas(stream.script)>>

\* The last chunk among the events (NoResponse when there is none).
RECURSIVE LastChunk(_)
LastChunk(events) ==
    IF events = <<>> THEN NoResponse
    ELSE IF events[Len(events)].Chunk # <<>> THEN events[Len(events)].Chunk[1]
    ELSE LastChunk(SubSeq(events, 1, Len(events) - 1))

\* What holds of every stream whose output channel is closed: the events forwarded are
\* the first events of the underlying stream, the conversation is persisted at most
\* once, with the text of the chunks forwarded (the last chunk's message when that text
\* is empty); and when [DONE] was forwarded, every event was, and the conversation is
\* persisted once.
C39_ForwardedEventsArePersisted ==
    (stream.pc = "open" /\ stream.outClosed) =>
        /\ Forwarded = SubSeq(stream.emitted, 1, Len(Forwarded))
        /\ Len(stream.persisted) <= 1
        /\ stream.persisted # <<>> =>
               /\ stream.persisted[1] = persist(stream.req, LastChunk(Forwarded), Deltas(Forwarded))
               /\ StoredContents = <<stream.req.Messages[1].Content,
                                     stream.persisted[1].Response[1].Content>>
        /\ (Forwarded # <<>> /\ Forwarded[Len(Forwarded)].Done) =>
               /\ Forwarded = Append(stream.script, DoneEvent)
               /\ Len(stream.persisted) = 1

====
